---- MODULE Spec2Model ----
(***************************************************************************)
(* Model of the SmartRefresh hysteresis engine                             *)
(* (backend/src/core_logic.rs, HysteresisController).                      *)
(*                                                                         *)
(* Conventions                                                             *)
(*   - Instants and Durations are integers in milliseconds.                *)
(*   - FPS values (f64 in the source) are integers in tenths of a frame    *)
(*     per second: 575 is 57.5 fps.  fps_tolerance and the standard        *)
(*     deviation thresholds are in tenths as well.                         *)
(*   - Option<T> is a sequence: <<>> is None, <<x>> is Some(x).            *)
(*   - The controller is one record whose fields are the fields of the     *)
(*     struct; every method is an operator from the record (and the        *)
(*     arguments) to the record after the call.                            *)
(***************************************************************************)
EXTENDS Integers, Sequences, FiniteSets, TLC

\* controller   the HysteresisController
\* clock        the monotonic clock read by Instant::now(), in ms
\* lastNow      the `now` argument of the latest process call
\* lastSomeAt   the `now` argument of the latest process call that returned Some
\* last         the latest call: its name, arguments and result
\* decidesLeft  process calls the behaviour may still make
\* configsLeft  configuration calls the behaviour may still make
\* phase        position in a scripted scenario ("free" outside scenarios)
\* daemon       the rest of the daemon: DaemonState, ConfigManager,
\*              DisplayManager, MetricsCollector and the position of each task
VARIABLES controller, clock, lastNow, lastSomeAt, last, decidesLeft, configsLeft, phase,
          daemon

vars == <<controller, clock, lastNow, lastSomeAt, last, decidesLeft, configsLeft, phase,
          daemon>>

\* ------------------------------------------------------------------------
\* Option, AlgorithmState, enums
\* ------------------------------------------------------------------------
None == <<>>

Some(x) == <<x>>

IsSome(o) == o # <<>>

Stable == [kind |-> "Stable", since |-> 0]

Dropping(t) == [kind |-> "Dropping", since |-> t]

Increasing(t) == [kind |-> "Increasing", since |-> t]

Sensitivity == {"Conservative", "Balanced", "Aggressive"}

DeviceMode == {"Oled", "Lcd", "Custom"}

\* ------------------------------------------------------------------------
\* Program constants
\* ------------------------------------------------------------------------
DEFAULT_FPS_TOLERANCE == 30

MIN_FPS_TOLERANCE == 20

MAX_FPS_TOLERANCE == 50

ADAPTIVE_WINDOW_SIZE == 10

STD_DEV_STABLE == 20

STD_DEV_UNSTABLE == 50

DEFAULT_RESUME_COOLDOWN_SECS == 5

HZ_STEP_SIZE == 5

MIN_CHANGE_INTERVAL_OLED_MS == 500

MIN_CHANGE_INTERVAL_LCD_MS == 2000

LCD_MIN_HZ == 40

LCD_MAX_HZ == 60

\* main.rs: period of the control loop, in ms
FPS_POLL_INTERVAL_MS == 100

\* display_control.rs
MIN_ALLOWED_HZ == 40

MAX_ALLOWED_HZ == 90

\* ------------------------------------------------------------------------
\* Bounds of the model
\* ------------------------------------------------------------------------
\* number of process / process_with_time calls in one behaviour
MaxDecide == 2

\* number of configuration calls in one behaviour
MaxConfig == 2

\* the clock and the `now` arguments stay within MaxTick grid steps
MaxTick == 12

\* one grid step of the general specification, in ms
GridMs == 1000 \div 2

MaxTime == MaxTick * GridMs

\* ------------------------------------------------------------------------
\* Sensitivity presets
\* ------------------------------------------------------------------------
drop_threshold_bad(s) ==
  CASE s = "Conservative" -> 2000
    [] s = "Balanced" -> 1000
    [] s = "Aggressive" -> 0

drop_threshold(s) ==
  CASE s = "Conservative" -> 2000
    [] s = "Balanced" -> 1000
    [] s = "Aggressive" -> 500

increase_threshold(s) ==
  CASE s = "Conservative" -> 5000
    [] s = "Balanced" -> 3000
    [] s = "Aggressive" -> 1500

\* ------------------------------------------------------------------------
\* FpsSlidingWindow
\* ------------------------------------------------------------------------
RECURSIVE SumSeq(_)
SumSeq(s) == IF s = <<>> THEN 0 ELSE Head(s) + SumSeq(Tail(s))

RECURSIVE SumSq(_)
SumSq(s) == IF s = <<>> THEN 0 ELSE Head(s) * Head(s) + SumSq(Tail(s))

window_new(capacity) == [samples |-> <<>>, capacity |-> capacity]

push_bad(w, fps) ==
  LET kept == IF Len(w.samples) > w.capacity THEN Tail(w.samples) ELSE w.samples
  IN [w EXCEPT !.samples = Append(kept, fps)]

push(w, fps) ==
  LET kept == IF Len(w.samples) >= w.capacity THEN Tail(w.samples) ELSE w.samples
  IN [w EXCEPT !.samples = Append(kept, fps)]

clear(w) == [w EXCEPT !.samples = <<>>]

is_full(w) == Len(w.samples) >= w.capacity

\* std_dev() = sqrt( sum (x - mean)^2 / (n - 1) ), 0 when n < 2.  With
\* S = sum x, Q = sum x^2:  variance = (n*Q - S*S) / (n*(n-1)).  The two
\* operators compare std_dev with a limit without taking the root.
std_dev_gt_bad(w, lim) ==
  LET n == Len(w.samples)
  IN IF n < 2 THEN 0 > lim
     ELSE n * SumSq(w.samples) - SumSeq(w.samples) * SumSeq(w.samples)
            > lim * lim * n * n

std_dev_gt(w, lim) ==
  LET n == Len(w.samples)
  IN IF n < 2 THEN 0 > lim
     ELSE n * SumSq(w.samples) - SumSeq(w.samples) * SumSeq(w.samples)
            > lim * lim * n * (n - 1)

std_dev_lt(w, lim) ==
  LET n == Len(w.samples)
  IN IF n < 2 THEN 0 < lim
     ELSE n * SumSq(w.samples) - SumSeq(w.samples) * SumSeq(w.samples)
            < lim * lim * n * (n - 1)

\* ------------------------------------------------------------------------
\* HysteresisController
\* ------------------------------------------------------------------------
new(sensitivity) ==
  [ state |-> Stable,
    drop_threshold |-> drop_threshold(sensitivity),
    increase_threshold |-> increase_threshold(sensitivity),
    min_change_interval |-> MIN_CHANGE_INTERVAL_OLED_MS,
    last_change |-> None,
    user_sensitivity |-> sensitivity,
    effective_sensitivity |-> sensitivity,
    device_mode |-> "Oled",
    user_min_hz |-> 40,
    user_max_hz |-> 90,
    fps_window |-> window_new(ADAPTIVE_WINDOW_SIZE),
    adaptive_sensitivity_enabled |-> FALSE,
    external_display_detected |-> FALSE,
    fps_tolerance |-> DEFAULT_FPS_TOLERANCE,
    resume_cooldown_until |-> None,
    resume_cooldown_duration |-> DEFAULT_RESUME_COOLDOWN_SECS * 1000,
    sync_frame_limiter |-> FALSE,
    last_set_hz |-> None ]

set_user_range(c, min_hz, max_hz) ==
  [c EXCEPT !.user_min_hz = min_hz, !.user_max_hz = max_hz]

update_effective_sensitivity(c) ==
  LET eff == IF c.device_mode = "Lcd" THEN "Conservative" ELSE c.user_sensitivity
  IN [c EXCEPT !.effective_sensitivity = eff,
               !.drop_threshold = drop_threshold(eff),
               !.increase_threshold = increase_threshold(eff)]

set_adaptive_sensitivity_bad(c, enabled) ==
  [c EXCEPT !.adaptive_sensitivity_enabled = enabled]

set_adaptive_sensitivity(c, enabled) ==
  LET c1 == [c EXCEPT !.adaptive_sensitivity_enabled = enabled]
  IN IF ~enabled THEN update_effective_sensitivity(c1) ELSE c1

set_external_display_detected_bad(c, detected) ==
  [c EXCEPT !.external_display_detected = detected]

set_external_display_detected(c, detected) ==
  LET c1 == [c EXCEPT !.external_display_detected = detected]
  IN IF detected THEN [c1 EXCEPT !.state = Stable] ELSE c1

reset_state_bad(c, wall) ==
  [c EXCEPT !.state = Stable,
            !.fps_window = clear(c.fps_window),
            !.resume_cooldown_until = Some(wall + c.resume_cooldown_duration)]

\* `wall` is the value of Instant::now() read by the method
reset_state(c, wall) ==
  [c EXCEPT !.state = Stable,
            !.last_change = None,
            !.fps_window = clear(c.fps_window),
            !.resume_cooldown_until = Some(wall + c.resume_cooldown_duration)]

is_in_resume_cooldown_bad(c, wall) ==
  IF IsSome(c.resume_cooldown_until) THEN wall >= c.resume_cooldown_until[1] ELSE FALSE

is_in_resume_cooldown(c, wall) ==
  IF IsSome(c.resume_cooldown_until) THEN wall < c.resume_cooldown_until[1] ELSE FALSE

set_resume_cooldown(c, secs) == [c EXCEPT !.resume_cooldown_duration = secs * 1000]

clamp(x, lo, hi) == IF x < lo THEN lo ELSE IF x > hi THEN hi ELSE x

set_fps_tolerance(c, tolerance) ==
  [c EXCEPT !.fps_tolerance = clamp(tolerance, MIN_FPS_TOLERANCE, MAX_FPS_TOLERANCE)]

\* Instant::duration_since saturates at zero
duration_since(now, earlier) == IF now >= earlier THEN now - earlier ELSE 0

can_change_bad(c, now) ==
  IF IsSome(c.last_change)
  THEN duration_since(now, c.last_change[1]) >= MIN_CHANGE_INTERVAL_LCD_MS
  ELSE TRUE

can_change(c, now) ==
  IF IsSome(c.last_change)
  THEN duration_since(now, c.last_change[1]) >= c.min_change_interval
  ELSE TRUE

record_change_bad(c, now) == c

record_change(c, now) == [c EXCEPT !.last_change = Some(now)]

set_sensitivity(c, sensitivity) ==
  LET c1 == update_effective_sensitivity([c EXCEPT !.user_sensitivity = sensitivity])
  IN [c1 EXCEPT !.state = Stable]

apply_mode_constraints(c, mode) ==
  LET c1 == [c EXCEPT !.device_mode = mode,
                      !.min_change_interval =
                          IF mode = "Lcd" THEN MIN_CHANGE_INTERVAL_LCD_MS
                          ELSE MIN_CHANGE_INTERVAL_OLED_MS]
      c2 == update_effective_sensitivity(c1)
  IN [c2 EXCEPT !.state = Stable]

Max(a, b) == IF a >= b THEN a ELSE b

Min(a, b) == IF a <= b THEN a ELSE b

\* <<effective_min, effective_max>>
get_effective_range(c) ==
  IF c.device_mode = "Lcd"
  THEN <<Max(c.user_min_hz, LCD_MIN_HZ), Min(c.user_max_hz, LCD_MAX_HZ)>>
  ELSE <<c.user_min_hz, c.user_max_hz>>

quantize_hz(hz) == ((hz + HZ_STEP_SIZE \div 2) \div HZ_STEP_SIZE) * HZ_STEP_SIZE

quantize_hz_down(hz) == (hz \div HZ_STEP_SIZE) * HZ_STEP_SIZE

next_step_up_bad(c, current_hz) ==
  LET next == current_hz + 1
  IN quantize_hz(Min(next, get_effective_range(c)[2]))

next_step_up(c, current_hz) ==
  LET next == current_hz + HZ_STEP_SIZE
  IN quantize_hz(Min(next, get_effective_range(c)[2]))

\* fps.floor() as u32: the cast saturates, a negative value becomes 0
floor_as_u32(fps) == IF fps <= 0 THEN 0 ELSE fps \div 10

\* u32::clamp(min, max) panics when min > max
target_hz_for_drop_panics(c) == get_effective_range(c)[1] > get_effective_range(c)[2]

target_hz_for_drop_bad(c, fps) ==
  LET r == get_effective_range(c)
  IN clamp(quantize_hz(floor_as_u32(fps)), r[1], r[2])

target_hz_for_drop(c, fps) ==
  LET r == get_effective_range(c)
  IN clamp(quantize_hz_down(floor_as_u32(fps)), r[1], r[2])

apply_adaptive_sensitivity_bad(c) ==
  IF ~c.adaptive_sensitivity_enabled THEN c
  ELSE IF ~is_full(c.fps_window) THEN c
  ELSE IF std_dev_gt(c.fps_window, STD_DEV_UNSTABLE)
       THEN [c EXCEPT !.effective_sensitivity = "Conservative",
                      !.drop_threshold = drop_threshold("Conservative"),
                      !.increase_threshold = increase_threshold("Conservative")]
  ELSE IF std_dev_lt(c.fps_window, STD_DEV_STABLE)
       THEN [c EXCEPT !.effective_sensitivity = c.user_sensitivity,
                      !.drop_threshold = drop_threshold(c.user_sensitivity),
                      !.increase_threshold = increase_threshold(c.user_sensitivity)]
  ELSE c

apply_adaptive_sensitivity(c) ==
  IF ~c.adaptive_sensitivity_enabled \/ c.device_mode = "Lcd" THEN c
  ELSE IF ~is_full(c.fps_window) THEN c
  ELSE IF std_dev_gt(c.fps_window, STD_DEV_UNSTABLE)
       THEN IF c.effective_sensitivity # "Conservative"
            THEN [c EXCEPT !.effective_sensitivity = "Conservative",
                           !.drop_threshold = drop_threshold("Conservative"),
                           !.increase_threshold = increase_threshold("Conservative")]
            ELSE c
  ELSE IF std_dev_lt(c.fps_window, STD_DEV_STABLE)
       THEN IF c.effective_sensitivity # c.user_sensitivity
            THEN [c EXCEPT !.effective_sensitivity = c.user_sensitivity,
                           !.drop_threshold = drop_threshold(c.user_sensitivity),
                           !.increase_threshold = increase_threshold(c.user_sensitivity)]
            ELSE c
  ELSE c

Abs(x) == IF x < 0 THEN 0 - x ELSE x

\* sticky target: |current_fps - current_hz| < fps_tolerance
within_tolerance_bad(c, current_fps, current_hz) ==
  Abs(current_fps - current_hz * 10) < MIN_FPS_TOLERANCE

within_tolerance(c, current_fps, current_hz) ==
  Abs(current_fps - current_hz * 10) < c.fps_tolerance

\* the value of a call: the controller after it, the returned Option<u32>,
\* whether the call panicked, and the branch of the method that ended it
Ret(c, res, branch) == [c |-> c, res |-> res, panicked |-> FALSE, branch |-> branch]

Panic(c) == [c |-> c, res |-> None, panicked |-> TRUE, branch |-> "panic"]

\* `now` is the argument, `wall` the Instant::now() read by the cooldown gate
process_with_time(c0, current_fps, current_hz, now, wall) ==
  LET c1 == [c0 EXCEPT !.fps_window = push(c0.fps_window, current_fps)]
      c == apply_adaptive_sensitivity(c1)
      effective_min == get_effective_range(c)[1]
      effective_max == get_effective_range(c)[2]
      fps_below_threshold == current_fps < current_hz * 10 - 10
      fps_at_or_above == current_fps >= current_hz * 10
      since == c.state.since
  IN IF c.external_display_detected
       THEN Ret([c EXCEPT !.state = Stable], None, "external")
     ELSE IF is_in_resume_cooldown(c, wall)
       THEN Ret([c EXCEPT !.state = Stable], None, "cooldown")
     ELSE IF within_tolerance(c, current_fps, current_hz)
       THEN Ret([c EXCEPT !.state = Stable], None, "sticky")
     ELSE IF c.state.kind = "Stable"
       THEN IF fps_below_threshold /\ current_hz > effective_min
              THEN Ret([c EXCEPT !.state = Dropping(now)], None, "arm_drop")
            ELSE IF fps_at_or_above /\ current_hz < effective_max
              THEN Ret([c EXCEPT !.state = Increasing(now)], None, "arm_rise")
            ELSE Ret(c, None, "stable")
     ELSE IF c.state.kind = "Dropping"
       THEN IF ~fps_below_threshold
              THEN Ret([c EXCEPT !.state = Stable], None, "drop_cancel")
            ELSE IF duration_since(now, since) >= c.drop_threshold
              THEN IF can_change(c, now)
                     THEN IF target_hz_for_drop_panics(c) THEN Panic(c)
                          ELSE LET target_hz == target_hz_for_drop(c, current_fps)
                               IN IF Abs(current_hz - target_hz) < HZ_STEP_SIZE
                                    THEN Ret([c EXCEPT !.state = Stable], None, "drop_deadband")
                                    ELSE Ret([record_change(c, now) EXCEPT
                                                 !.state = Stable,
                                                 !.last_set_hz = Some(target_hz)],
                                             Some(target_hz), "drop")
                     ELSE Ret(c, None, "drop_throttled")
            ELSE Ret(c, None, "drop_wait")
     ELSE \* Increasing
          IF fps_below_threshold
            THEN Ret([c EXCEPT !.state = Dropping(now)], None, "rise_to_drop")
          ELSE IF ~fps_at_or_above
            THEN Ret([c EXCEPT !.state = Stable], None, "rise_cancel")
          ELSE IF duration_since(now, since) >= c.increase_threshold
            THEN IF can_change(c, now)
                   THEN LET new_hz == next_step_up(c, current_hz)
                        IN IF new_hz <= current_hz
                             THEN Ret([c EXCEPT !.state = Stable], None, "rise_noop")
                             ELSE Ret([record_change(c, now) EXCEPT
                                          !.state = Stable,
                                          !.last_set_hz = Some(new_hz)],
                                      Some(new_hz), "rise")
                   ELSE Ret(c, None, "rise_throttled")
          ELSE Ret(c, None, "rise_wait")

\* ------------------------------------------------------------------------
\* DisplayManager (display_control.rs): [current_hz, min_hz, max_hz,
\* last_change]; it is constructed at the instant 0 of the model
\* ------------------------------------------------------------------------
\* the range stored by DisplayManager::new and set_range
ordered_range(min, max) ==
  LET clamped_min == clamp(min, MIN_ALLOWED_HZ, MAX_ALLOWED_HZ)
      clamped_max == clamp(max, MIN_ALLOWED_HZ, MAX_ALLOWED_HZ)
  IN IF clamped_min > clamped_max THEN <<clamped_max, clamped_min>>
     ELSE <<clamped_min, clamped_max>>

DisplayManager_new(min_hz, max_hz) ==
  LET r == ordered_range(min_hz, max_hz)
  IN [current_hz |-> r[2], min_hz |-> r[1], max_hz |-> r[2], last_change |-> 0]

clamp_hz_bad(dm, hz) == clamp(hz, dm.min_hz, MAX_ALLOWED_HZ)

clamp_hz(dm, hz) == clamp(hz, dm.min_hz, dm.max_hz)

set_range(dm, min, max) ==
  LET r == ordered_range(min, max)
  IN [dm EXCEPT !.min_hz = r[1], !.max_hz = r[2]]

\* set_refresh_rate up to the helper: Some(clamped_hz) when gamescope-cmd is
\* to be run with clamped_hz, None when the rate is unchanged (Ok(false))
set_refresh_rate_command(dm, hz) ==
  LET clamped_hz == clamp_hz(dm, hz)
  IN IF clamped_hz = dm.current_hz THEN None ELSE Some(clamped_hz)

\* set_refresh_rate after execute_gamescope_cmd returned at instant now:
\* Ok(()) stores the rate and the instant, an Err leaves the DisplayManager
\* as it was
set_refresh_rate_done_bad(dm, clamped_hz, ok, now) ==
  [dm EXCEPT !.current_hz = clamped_hz, !.last_change = now]

set_refresh_rate_done(dm, clamped_hz, ok, now) ==
  IF ok THEN [dm EXCEPT !.current_hz = clamped_hz, !.last_change = now] ELSE dm

\* ------------------------------------------------------------------------
\* MetricsCollector (metrics.rs): the three counters
\* ------------------------------------------------------------------------
MetricsCollector_new == [total_switches |-> 0, drop_count |-> 0, increase_count |-> 0]

record_switch(m, old_hz, new_hz) ==
  [m EXCEPT !.total_switches = @ + 1,
            !.drop_count = IF new_hz < old_hz THEN @ + 1 ELSE @,
            !.increase_count = IF new_hz > old_hz THEN @ + 1 ELSE @]

\* ------------------------------------------------------------------------
\* Config and ConfigManager (config.rs)
\* ------------------------------------------------------------------------
Config_default == [min_hz |-> 40, max_hz |-> 90, sensitivity |-> "Balanced", enabled |-> TRUE]

validate_bad(config) == TRUE

validate(config) ==
  /\ ~(config.min_hz > config.max_hz)
  /\ ~(config.min_hz < 40)
  /\ ~(config.max_hz > 90)

\* The configuration file is None when it does not exist, else Some(text);
\* a text is [json, min_hz, max_hz, sensitivity, enabled]: whether it is
\* JSON for an object with the four fields of Config in their types, and
\* what the fields hold, the sensitivity as the string written in the file.
\* impl Serialize for Sensitivity
serialize_sensitivity(sensitivity) ==
  CASE sensitivity = "Conservative" -> "conservative"
    [] sensitivity = "Balanced" -> "balanced"
    [] sensitivity = "Aggressive" -> "aggressive"

\* impl Deserialize for Sensitivity: Ok(enum) as Some, Err as None
deserialize_sensitivity(s) ==
  CASE s = "conservative" -> Some("Conservative")
    [] s = "balanced" -> Some("Balanced")
    [] s = "aggressive" -> Some("Aggressive")
    [] OTHER -> None

\* serde_json::to_string_pretty(&config)
to_string_pretty(config) ==
  [json |-> TRUE, min_hz |-> config.min_hz, max_hz |-> config.max_hz,
   sensitivity |-> serialize_sensitivity(config.sensitivity),
   enabled |-> config.enabled]

\* serde_json::from_str::<Config>(&contents): Ok(config) as Some, Err as None
from_str(contents) ==
  IF ~contents.json THEN None
  ELSE LET sensitivity == deserialize_sensitivity(contents.sensitivity)
       IN IF sensitivity = None THEN None
          ELSE Some([min_hz |-> contents.min_hz, max_hz |-> contents.max_hz,
                     sensitivity |-> sensitivity[1], enabled |-> contents.enabled])

\* ConfigManager::load_or_default: [ok, config]; ok = FALSE is the Err that
\* run_daemon returns with
load_or_default_bad(file) ==
  IF file = None \/ from_str(file[1]) = None \/ ~validate(from_str(file[1])[1])
  THEN [ok |-> TRUE, config |-> Config_default]
  ELSE [ok |-> TRUE, config |-> from_str(file[1])[1]]

load_or_default(file) ==
  IF file = None THEN [ok |-> TRUE, config |-> Config_default]
  ELSE LET config == from_str(file[1])
       IN IF config = None THEN [ok |-> FALSE, config |-> Config_default]
          ELSE IF ~validate(config[1]) THEN [ok |-> FALSE, config |-> Config_default]
          ELSE [ok |-> TRUE, config |-> config[1]]

\* ConfigManager::update: validate, replace the configuration in memory,
\* then save it; save_ok is whether the write of the file succeeded.
\* Yields the configuration in memory, the file and the Result.
update(mem, file, config, save_ok) ==
  IF ~validate(config) THEN [config |-> mem, file |-> file, ok |-> FALSE]
  ELSE IF save_ok
  THEN [config |-> config, file |-> Some(to_string_pretty(config)), ok |-> TRUE]
  ELSE [config |-> config, file |-> file, ok |-> FALSE]

\* str::to_lowercase on the spellings the requests of the model use
to_lowercase(s) ==
  CASE s = "Balanced" -> "balanced"
    [] s = "AGGRESSIVE" -> "aggressive"
    [] s = "Aggressive" -> "aggressive"
    [] s = "LCD" -> "lcd"
    [] s = "Oled" -> "oled"
    [] OTHER -> s

\* parse_sensitivity: Ok(enum) as Some, Err as None
parse_sensitivity(s) ==
  LET l == to_lowercase(s)
  IN CASE l = "conservative" -> Some("Conservative")
       [] l = "balanced" -> Some("Balanced")
       [] l = "aggressive" -> Some("Aggressive")
       [] OTHER -> None

\* parse_device_mode: Ok(enum) as Some, Err as None
parse_device_mode(s) ==
  LET l == to_lowercase(s)
  IN CASE l = "oled" -> Some("Oled")
       [] l = "lcd" -> Some("Lcd")
       [] l = "custom" -> Some("Custom")
       [] OTHER -> None

\* the transition log of the status response: the last 20 records
\* <<from_hz, to_hz, fps>>
MAX_TRANSITIONS == 20

record_transition(log, old_hz, new_hz, fps) ==
  LET kept == IF Len(log) >= MAX_TRANSITIONS THEN Tail(log) ELSE log
  IN Append(kept, <<old_hz, new_hz, fps>>)

\* ------------------------------------------------------------------------
\* The daemon after start-up with configuration `config` (main.rs run_daemon,
\* DaemonState::new).  `writers` holds the tasks that own the write guard of
\* the controller's RwLock; every task has a position (pc) and its locals.
\* ------------------------------------------------------------------------
Tasks == {"loop", "ipc", "wake", "monitor"}

\* connections the IPC server can be given in one behaviour
MaxConns == 2

Conns == 1..MaxConns

\* a connection slot before accept: pc "none"; `inbox` is what the client
\* has written and the server has not read, `eof` whether the client has
\* closed its end, `reads` the numbers of the non-empty lines read, `cur`
\* the line being handled, `resp` its response, `out` the response lines
\* written, `sent` the number of lines the client has written
Conn_new == [pc |-> "none", inbox |-> <<>>, eof |-> FALSE, reads |-> <<>>,
             cur |-> <<>>, resp |-> <<>>, out |-> <<>>, sent |-> 0]

\* the IPC server task before its first IpcServer::new_default
IpcServer_new == [pc |-> "bind", bind_failures |-> 0]

Daemon_new(config, file) ==
  [ running |-> config.enabled,
    current_fps |-> 0,
    current_hz |-> config.max_hz,
    config |-> config,
    file |-> file,
    dm |-> DisplayManager_new(config.min_hz, config.max_hz),
    metrics |-> MetricsCollector_new,
    transitions |-> <<>>,
    helper_calls |-> <<>>,
    writers |-> {},
    loop |-> [pc |-> "sleep", fps |-> 0, hz |-> 0, new_hz |-> None, old_hz |-> 0,
              clamped_hz |-> 0, result |-> "none"],
    ipc |-> [pc |-> "idle", op |-> "none", arg |-> "none", success |-> TRUE,
             req |-> <<>>],
    wake |-> [pc |-> "idle"],
    monitor |-> [pc |-> "idle", detected |-> FALSE],
    server |-> IpcServer_new,
    conns |-> [c \in Conns |-> Conn_new],
    shutdown |-> FALSE,
    fps_task |-> [pc |-> "top"],
    main |-> [pc |-> "wait"] ]

\* ------------------------------------------------------------------------
\* State machine: one action per method of the controller.  The arguments of
\* an action are the sets its inputs are drawn from; S is a set of samples
\* <<current_fps, current_hz>>.
\* ------------------------------------------------------------------------
NoCall == [op |-> "new", fps |-> 0, hz |-> 0, now |-> 0, wall |-> 0, res |-> None,
           panicked |-> FALSE, branch |-> "none", pre_state |-> Stable,
           prevSome |-> None]

\* process_with_time(fps, hz, now) is called and returns
Call(fps, hz, now) ==
  LET r == process_with_time(controller, fps, hz, now, clock)
  IN /\ decidesLeft > 0
     /\ controller' = r.c
     /\ last' = [op |-> "process_with_time", fps |-> fps, hz |-> hz, now |-> now,
                 wall |-> clock, res |-> r.res, panicked |-> r.panicked,
                 branch |-> r.branch, pre_state |-> controller.state,
                 prevSome |-> lastSomeAt]
     /\ lastNow' = now
     /\ lastSomeAt' = IF IsSome(r.res) THEN Some(now) ELSE lastSomeAt
     /\ decidesLeft' = decidesLeft - 1
     /\ UNCHANGED <<clock, configsLeft, daemon>>

\* a configuration call left the controller c
Configured(op, c) ==
  /\ controller' = c
  /\ last' = [NoCall EXCEPT !.op = op, !.pre_state = controller.state]
  /\ configsLeft' = configsLeft - 1
  /\ UNCHANGED <<clock, lastNow, lastSomeAt, decidesLeft, phase, daemon>>

\* process(current_fps, current_hz): now is Instant::now()
Process(S) ==
  /\ phase = "free"
  /\ clock >= lastNow
  /\ \E s \in S : Call(s[1], s[2], clock)
  /\ UNCHANGED phase

\* process_with_time(current_fps, current_hz, now): now is the caller's and
\* does not decrease from call to call; D holds the advances in grid steps
ProcessWithTime(S, D) ==
  /\ phase = "free"
  /\ \E s \in S, d \in D :
        /\ lastNow + d * GridMs <= MaxTime
        /\ Call(s[1], s[2], lastNow + d * GridMs)
  /\ UNCHANGED phase

SetUserRange(R) ==
  /\ configsLeft > 0
  /\ phase = "free"
  /\ \E r \in R :
        Configured("set_user_range", set_user_range(controller, r[1], r[2]))

SetAdaptiveSensitivity ==
  /\ configsLeft > 0
  /\ phase = "free"
  /\ \E b \in BOOLEAN :
        Configured("set_adaptive_sensitivity", set_adaptive_sensitivity(controller, b))

SetExternalDisplayDetected ==
  /\ configsLeft > 0
  /\ phase = "free"
  /\ \E b \in BOOLEAN :
        Configured("set_external_display_detected",
                   set_external_display_detected(controller, b))

ResetState ==
  /\ configsLeft > 0
  /\ phase = "free"
  /\ Configured("reset_state", reset_state(controller, clock))

SetResumeCooldown(S) ==
  /\ configsLeft > 0
  /\ phase = "free"
  /\ \E secs \in S :
        Configured("set_resume_cooldown", set_resume_cooldown(controller, secs))

SetFpsTolerance(T) ==
  /\ configsLeft > 0
  /\ phase = "free"
  /\ \E t \in T :
        Configured("set_fps_tolerance", set_fps_tolerance(controller, t))

SetSensitivity(S) ==
  /\ configsLeft > 0
  /\ phase = "free"
  /\ \E s \in S :
        Configured("set_sensitivity", set_sensitivity(controller, s))

ApplyModeConstraints(M) ==
  /\ configsLeft > 0
  /\ phase = "free"
  /\ \E m \in M :
        Configured("apply_mode_constraints", apply_mode_constraints(controller, m))

\* the wall clock advances by one of the grid-step counts in D
Tick(D) ==
  /\ phase = "free"
  /\ \E d \in D :
        /\ clock + d * GridMs <= MaxTime
        /\ clock' = clock + d * GridMs
  /\ UNCHANGED <<controller, lastNow, lastSomeAt, last, decidesLeft, configsLeft, phase,
                 daemon>>

\* the state in which the observation of controller c starts, with budgets
\* of nd process calls and nc configuration calls
Fresh(c, nd, nc, ph) ==
  /\ controller = c
  /\ clock = 0
  /\ lastNow = 0
  /\ lastSomeAt = None
  /\ last = NoCall
  /\ decidesLeft = nd
  /\ configsLeft = nc
  /\ phase = ph
  /\ daemon = Daemon_new(Config_default, None)

\* ------------------------------------------------------------------------
\* Spec: every method, in any order
\* ------------------------------------------------------------------------
\* samples <<current_fps, current_hz>> handed to process: at 60 Hz an FPS of
\* 0, 45.0 (below), 57.5 (2.5 away), 70.0 (above); at 45 Hz an FPS of 45.0;
\* at 30 Hz, a rate below every range, an FPS of 45.0
Samples == {<<0, 60>>, <<450, 60>>, <<575, 60>>, <<700, 60>>, <<450, 45>>, <<450, 30>>}

\* advance of the `now` argument between two process_with_time calls, in grid steps
NowSteps == {0, 1, 4}

\* advance of the wall clock in one Tick, in grid steps (5000 ms, the
\* default resume cooldown)
ClockSteps == {10}

\* arguments of set_user_range: the default range, a range whose bounds are
\* not multiples of 5, a range above the LCD maximum, and a range of one rate
UserRanges == {<<40, 90>>, <<42, 88>>, <<65, 90>>, <<45, 45>>}

\* arguments of set_fps_tolerance, in tenths (1.0 and 6.0, both clamped)
ToleranceInputs == {10, 60}

\* arguments of set_resume_cooldown, in seconds
CooldownSecs == {2}

\* Contents of the variance window when the observation starts: empty (a new
\* controller), or the ten samples left by ten process calls made while an
\* external display was attached (such a call pushes its sample and changes
\* nothing else), here ten samples of 57.5.
InitWindows ==
  { <<>>,
    <<575, 575, 575, 575, 575, 575, 575, 575, 575, 575>> }

Init ==
  \E s \in Sensitivity, w \in InitWindows :
     Fresh([new(s) EXCEPT !.fps_window.samples = w], MaxDecide, MaxConfig, "free")

Next ==
  \/ Process(Samples)
  \/ ProcessWithTime(Samples, NowSteps)
  \/ SetUserRange(UserRanges)
  \/ SetAdaptiveSensitivity
  \/ SetExternalDisplayDetected
  \/ ResetState
  \/ SetResumeCooldown(CooldownSecs)
  \/ SetFpsTolerance(ToleranceInputs)
  \/ SetSensitivity(Sensitivity)
  \/ ApplyModeConstraints(DeviceMode)
  \/ Tick(ClockSteps)

Spec == Init /\ [][Next]_vars

\* ------------------------------------------------------------------------
\* SpecGap: longer runs over fewer inputs, for what relates two rate changes.
\* The controller starts as the daemon has it after start-up and one
\* SetDeviceMode request.
\* ------------------------------------------------------------------------
\* process calls in one behaviour of SpecGap
GapDecides == 4

\* configuration calls in one behaviour of SpecGap
GapConfigs == 1

GapSamples == {<<450, 60>>, <<700, 60>>}

GapClockSteps == {10}

GapRanges == {<<45, 85>>}

GapSensitivities == {"Conservative", "Aggressive"}

GapModes == {"Oled", "Lcd"}

InitGap ==
  \E s \in Sensitivity, m \in GapModes :
     Fresh(apply_mode_constraints(new(s), m), GapDecides, GapConfigs, "free")

NextGap ==
  \/ Process(GapSamples)
  \/ ProcessWithTime(GapSamples, NowSteps)
  \/ SetUserRange(GapRanges)
  \/ SetAdaptiveSensitivity
  \/ SetExternalDisplayDetected
  \/ ResetState
  \/ SetResumeCooldown(CooldownSecs)
  \/ SetSensitivity(GapSensitivities)
  \/ ApplyModeConstraints(GapModes)
  \/ Tick(GapClockSteps)

SpecGap == InitGap /\ [][NextGap]_vars

\* ------------------------------------------------------------------------
\* SpecP4 / SpecP5: two process_with_time calls with the same sample, the
\* second one `later` ms after the first, on a new Balanced controller
\* (Oled, user range 40-90, Stable)
\* ------------------------------------------------------------------------
\* the second call repeats the sample of the first, `later` ms after it
Again(later) ==
  /\ phase = "armed"
  /\ Call(last.fps, last.hz, last.now + later)
  /\ phase' = "done"

\* times of the first call
ScenarioTimes == {0, 250, 4000}

P4Hz == 45 .. 90

\* k of fps = H - k, in tenths: 6.0, 6.5, 13.0, 45.0
P4K == {60, 65, 130, 450}

P4First ==
  /\ phase = "start"
  /\ \E h \in P4Hz, k \in P4K, t \in ScenarioTimes : Call(h * 10 - k, h, t)
  /\ phase' = "armed"

P4Second ==
  /\ decidesLeft > 0
  /\ Again(1001)

InitP4 == Fresh(new("Balanced"), 2, 0, "start")

NextP4 == P4First \/ P4Second

SpecP4 == InitP4 /\ [][NextP4]_vars

P5Hz == {h \in 0 .. 89 : h % 5 = 0}

\* e of fps = H + fps_tolerance + e, in tenths
P5E == {0, 5, 200}

P5First ==
  /\ phase = "start"
  /\ \E h \in P5Hz, e \in P5E, t \in ScenarioTimes :
        Call(h * 10 + controller.fps_tolerance + e, h, t)
  /\ phase' = "armed"

P5Second ==
  /\ decidesLeft > 0
  /\ Again(3001)

InitP5 == Fresh(new("Balanced"), 2, 0, "start")

NextP5 == P5First \/ P5Second

SpecP5 == InitP5 /\ [][NextP5]_vars

\* ------------------------------------------------------------------------
\* SpecS3: process_with_time every 100 ms on a new Balanced controller put
\* in device mode Oled or Lcd.  The first call is made at clock reading t0;
\* with t the time since t0, current_hz is 90 up to t = 1000 and 45 after,
\* the FPS is 45.0 before t = 1100 and 30.0 from then on; the last call is
\* the one at t = 2100.
\* ------------------------------------------------------------------------
\* clock readings at which the scenario starts
S3Starts == {0, 250, 1000, 4000}

S3Modes == {"Oled", "Lcd"}

\* calls after the first in one run
S3Ticks == 21

\* time of the last call, in ms since the first
S3End == S3Ticks * FPS_POLL_INTERVAL_MS

\* process_with_time calls of one run
S3Calls == S3Ticks + 1

S3Hz(t) == IF t <= 1000 THEN 90 ELSE 45

S3Fps(t) == IF t < 1100 THEN 450 ELSE 300

S3First ==
  /\ phase = "start"
  /\ Call(S3Fps(0), S3Hz(0), clock)
  /\ phase' = "run"

S3Again ==
  /\ phase = "run"
  /\ LET t == lastNow + FPS_POLL_INTERVAL_MS - clock
     IN /\ t <= S3End
        /\ Call(S3Fps(t), S3Hz(t), lastNow + FPS_POLL_INTERVAL_MS)
        /\ phase' = IF t = S3End THEN "done" ELSE "run"

InitS3 ==
  \E m \in S3Modes, t0 \in S3Starts :
     /\ controller = apply_mode_constraints(new("Balanced"), m)
     /\ clock = t0
     /\ lastNow = t0
     /\ lastSomeAt = None
     /\ last = NoCall
     /\ decidesLeft = S3Calls
     /\ configsLeft = 0
     /\ phase = "start"
     /\ daemon = Daemon_new(Config_default, None)

NextS3 == S3First \/ S3Again

SpecS3 == InitS3 /\ [][NextS3]_vars

\* ------------------------------------------------------------------------
\* SpecS4: reset_state at clock reading t0 on a Balanced controller (Oled,
\* user range 40-90, cooldown 5 s), then process(30.0, 90) at the clock
\* readings t0 + 1000, 2000, 3000, 4000, 4999, 5001 and 6002.
\* ------------------------------------------------------------------------
\* clock readings at which reset_state is called
S4Starts == {0, 250, 1000, 4000, 5000, 10000}

\* times of the process calls, in ms since reset_state
S4Times == <<1000, 2000, 3000, 4000, 4999, 5001, 6002>>

\* the controller before reset_state: new, or new and one process call that
\* left it Dropping or Increasing
S4Priors ==
  { new("Balanced"),
    process_with_time(new("Balanced"), 300, 90, 0, 0).c,
    process_with_time(new("Balanced"), 700, 60, 0, 0).c }

\* the clock reading at which reset_state was called
S4ResetAt == controller.resume_cooldown_until[1] - controller.resume_cooldown_duration

S4Reset ==
  /\ phase = "wake"
  /\ configsLeft > 0
  /\ Configured("reset_state", reset_state(controller, clock))

\* the clock reaches the time of the next process call
S4Wait ==
  /\ \/ phase = "wake" /\ configsLeft = 0
     \/ phase = "called"
  /\ decidesLeft > 0
  /\ clock' = S4ResetAt + S4Times[Len(S4Times) - decidesLeft + 1]
  /\ phase' = "due"
  /\ UNCHANGED <<controller, lastNow, lastSomeAt, last, decidesLeft, configsLeft, daemon>>

S4Process ==
  /\ phase = "due"
  /\ Call(300, 90, clock)
  /\ phase' = IF decidesLeft = 1 THEN "done" ELSE "called"

InitS4 ==
  \E c \in S4Priors, t0 \in S4Starts :
     /\ controller = c
     /\ clock = t0
     /\ lastNow = 0
     /\ lastSomeAt = None
     /\ last = NoCall
     /\ decidesLeft = Len(S4Times)
     /\ configsLeft = 1
     /\ phase = "wake"
     /\ daemon = Daemon_new(Config_default, None)

NextS4 == S4Reset \/ S4Wait \/ S4Process

SpecS4 == InitS4 /\ [][NextS4]_vars

\* ------------------------------------------------------------------------
\* SpecAdaptive: long runs of process_with_time calls over two FPS values,
\* 55.0 and 65.0 at 60 Hz, all at the same instant, with
\* set_adaptive_sensitivity and apply_mode_constraints in between: the
\* variance window fills and slides through windows of every spread.
\* ------------------------------------------------------------------------
\* process calls in one behaviour of SpecAdaptive
AdDecides == 20

\* configuration calls in one behaviour of SpecAdaptive
AdConfigs == 1

AdSamples == {<<550, 60>>, <<650, 60>>}

AdNowSteps == {0}

AdModes == {"Oled", "Lcd"}

InitAdaptive ==
  \E s \in Sensitivity, b \in BOOLEAN :
     Fresh(set_adaptive_sensitivity(new(s), b), AdDecides, AdConfigs, "free")

NextAdaptive ==
  \/ ProcessWithTime(AdSamples, AdNowSteps)
  \/ SetAdaptiveSensitivity
  \/ ApplyModeConstraints(AdModes)

SpecAdaptive == InitAdaptive /\ [][NextAdaptive]_vars

\* ------------------------------------------------------------------------
\* SpecDaemon: the tasks of the daemon (main.rs, ipc_server.rs) around the
\* controller: the control loop, one IPC connection, the wake handler, the
\* external-display monitor and the FPS poller, interleaved step by step.
\* A task takes the controller's write guard in a step of its own.
\* decidesLeft counts the ticks of the control loop, configsLeft the events
\* from outside (IPC requests, wake signals, monitor checks).
\* ------------------------------------------------------------------------
\* ticks of the control loop in one behaviour of SpecDaemon
DaemonTicks == 2

\* IPC requests, wake signals and monitor checks in one behaviour
DaemonEvents == 1

\* the engine-side record of an event that is not a process call
Event(op) == [NoCall EXCEPT !.op = op, !.pre_state = controller.state]

\* what a step of the daemon leaves alone besides `daemon` and what it names
DaemonStep(d) ==
  /\ phase = "free"
  /\ daemon' = d

\* RwLock::write().await: the write guard of the controller is granted when
\* no task holds it (no task of the daemon holds a read guard across a step)
write_granted_bad(writers) == TRUE

write_granted(writers) == writers = {}

\* --- control loop (run_core_logic_with_panic_catch) ---
\* the sleep ends: if !state.is_running() { continue; }
LoopWake_bad ==
  /\ daemon.loop.pc = "sleep"
  /\ decidesLeft > 0
  /\ decidesLeft' = decidesLeft - 1
  /\ DaemonStep([daemon EXCEPT !.loop.pc = "read"])
  /\ UNCHANGED <<controller, clock, lastNow, lastSomeAt, last, configsLeft, phase>>

LoopWake ==
  /\ daemon.loop.pc = "sleep"
  /\ decidesLeft > 0
  /\ decidesLeft' = decidesLeft - 1
  /\ DaemonStep(IF ~daemon.running THEN daemon
                ELSE [daemon EXCEPT !.loop.pc = "read"])
  /\ UNCHANGED <<controller, clock, lastNow, lastSomeAt, last, configsLeft, phase>>

\* current_fps.try_read() (Err: continue), current_hz.load(), fps <= 0: continue
LoopRead ==
  /\ daemon.loop.pc = "read"
  /\ \E try_read_ok \in BOOLEAN :
        DaemonStep(IF ~try_read_ok \/ daemon.current_fps <= 0
                   THEN [daemon EXCEPT !.loop.pc = "sleep"]
                   ELSE [daemon EXCEPT !.loop.pc = "want_lock",
                                       !.loop.fps = daemon.current_fps,
                                       !.loop.hz = daemon.current_hz,
                                       !.loop.new_hz = None,
                                       !.loop.result = "none"])
  /\ UNCHANGED <<controller, clock, lastNow, lastSomeAt, last, decidesLeft, configsLeft,
                 phase>>

\* state.controller.write().await returns the guard
LoopLock ==
  /\ daemon.loop.pc = "want_lock"
  /\ write_granted(daemon.writers)
  /\ DaemonStep([daemon EXCEPT !.writers = @ \cup {"loop"}, !.loop.pc = "locked"])
  /\ UNCHANGED <<controller, clock, lastNow, lastSomeAt, last, decidesLeft, configsLeft,
                 phase>>

\* controller.process(current_fps, current_hz); the guard is dropped at the
\* end of the block (also when process unwinds)
LoopProcess ==
  /\ daemon.loop.pc = "locked"
  /\ LET r == process_with_time(controller, daemon.loop.fps, daemon.loop.hz, clock, clock)
     IN /\ controller' = r.c
        /\ last' = [op |-> "process_with_time", fps |-> daemon.loop.fps,
                    hz |-> daemon.loop.hz, now |-> clock, wall |-> clock,
                    res |-> r.res, panicked |-> r.panicked, branch |-> r.branch,
                    pre_state |-> controller.state, prevSome |-> lastSomeAt]
        /\ lastNow' = clock
        /\ lastSomeAt' = IF IsSome(r.res) THEN Some(clock) ELSE lastSomeAt
        /\ DaemonStep([daemon EXCEPT
              !.writers = @ \ {"loop"},
              !.loop.new_hz = r.res,
              !.loop.pc = IF r.panicked THEN "panicked"
                          ELSE IF IsSome(r.res) THEN "apply" ELSE "sleep"])
  /\ UNCHANGED <<clock, decidesLeft, configsLeft, phase>>

\* config_manager.get(); display_manager.set_range(..); old_hz = get_current_hz()
LoopSetRange ==
  /\ daemon.loop.pc = "apply"
  /\ DaemonStep([daemon EXCEPT
        !.dm = set_range(@, daemon.config.min_hz, daemon.config.max_hz),
        !.loop.old_hz = daemon.dm.current_hz,
        !.loop.pc = "set_rate"])
  /\ UNCHANGED <<controller, clock, lastNow, lastSomeAt, last, decidesLeft, configsLeft,
                 phase>>

\* set_refresh_rate(target_hz) up to the start of gamescope-cmd; Ok(false)
\* ends the tick
LoopSetRefreshRate ==
  /\ daemon.loop.pc = "set_rate"
  /\ LET cmd == set_refresh_rate_command(daemon.dm, daemon.loop.new_hz[1])
     IN DaemonStep(
          IF cmd = None
          THEN [daemon EXCEPT !.loop.result = "NoChange", !.loop.pc = "sleep"]
          ELSE [daemon EXCEPT
                  !.loop.clamped_hz = cmd[1],
                  !.loop.pc = "helper",
                  !.helper_calls = Append(@,
                      [hz |-> cmd[1], at |-> clock,
                       in_cooldown |-> is_in_resume_cooldown(controller, clock)])])
  /\ UNCHANGED <<controller, clock, lastNow, lastSomeAt, last, decidesLeft, configsLeft,
                 phase>>

\* gamescope-cmd returns: success, or an error (not found, I/O error,
\* non-zero exit), which ends the tick
HelperReturns_bad ==
  /\ daemon.loop.pc = "helper"
  /\ \E ok \in BOOLEAN :
        DaemonStep([daemon EXCEPT
          !.dm = set_refresh_rate_done(@, daemon.loop.clamped_hz, ok, clock),
          !.loop.result = IF ok THEN "Changed" ELSE "Failed",
          !.loop.pc = "publish"])
  /\ UNCHANGED <<controller, clock, lastNow, lastSomeAt, last, decidesLeft, configsLeft,
                 phase>>

HelperReturns ==
  /\ daemon.loop.pc = "helper"
  /\ \E ok \in BOOLEAN :
        DaemonStep([daemon EXCEPT
          !.dm = set_refresh_rate_done(@, daemon.loop.clamped_hz, ok, clock),
          !.loop.result = IF ok THEN "Changed" ELSE "Failed",
          !.loop.pc = IF ok THEN "publish" ELSE "sleep"])
  /\ UNCHANGED <<controller, clock, lastNow, lastSomeAt, last, decidesLeft, configsLeft,
                 phase>>

\* Ok(true): state.current_hz.store(display_manager.get_current_hz())
LoopPublish ==
  /\ daemon.loop.pc = "publish"
  /\ DaemonStep([daemon EXCEPT !.current_hz = daemon.dm.current_hz,
                               !.loop.pc = "metrics"])
  /\ UNCHANGED <<controller, clock, lastNow, lastSomeAt, last, decidesLeft, configsLeft,
                 phase>>

\* metrics.record_switch(old_hz, new_hz_actual)
LoopRecordSwitch ==
  /\ daemon.loop.pc = "metrics"
  /\ DaemonStep([daemon EXCEPT
        !.metrics = record_switch(@, daemon.loop.old_hz, daemon.current_hz),
        !.loop.pc = "transition"])
  /\ UNCHANGED <<controller, clock, lastNow, lastSomeAt, last, decidesLeft, configsLeft,
                 phase>>

\* state.record_transition(old_hz, new_hz_actual, current_fps)
LoopRecordTransition ==
  /\ daemon.loop.pc = "transition"
  /\ DaemonStep([daemon EXCEPT
        !.transitions = record_transition(@, daemon.loop.old_hz, daemon.current_hz,
                                          daemon.loop.fps),
        !.loop.pc = "sleep"])
  /\ UNCHANGED <<controller, clock, lastNow, lastSomeAt, last, decidesLeft, configsLeft,
                 phase>>

\* --- IPC connection (handle_command) ---
\* one more event from outside
DaemonEvent(op) ==
  /\ phase = "free"
  /\ configsLeft > 0
  /\ configsLeft' = configsLeft - 1
  /\ last' = Event(op)

\* IpcCommand::Start: state.start()
IpcStart ==
  /\ daemon.ipc.pc = "idle"
  /\ DaemonEvent("Start")
  /\ daemon' = [daemon EXCEPT !.running = TRUE, !.ipc.success = TRUE, !.ipc.req = <<>>]
  /\ UNCHANGED <<controller, clock, lastNow, lastSomeAt, decidesLeft, phase>>

\* IpcCommand::Stop: state.stop()
IpcStop ==
  /\ daemon.ipc.pc = "idle"
  /\ DaemonEvent("Stop")
  /\ daemon' = [daemon EXCEPT !.running = FALSE, !.ipc.success = TRUE, !.ipc.req = <<>>]
  /\ UNCHANGED <<controller, clock, lastNow, lastSomeAt, decidesLeft, phase>>

\* IpcCommand::SetConfig up to controller.write().await; Q is the set of
\* requests <<min_hz, max_hz, sensitivity>>
IpcSetConfig(Q) ==
  /\ daemon.ipc.pc = "idle"
  /\ DaemonEvent("SetConfig")
  /\ \E q \in Q, save_ok \in BOOLEAN :
        LET sensitivity_enum == parse_sensitivity(q[3])
            u == update(daemon.config, daemon.file,
                        [daemon.config EXCEPT !.min_hz = q[1], !.max_hz = q[2],
                                              !.sensitivity = sensitivity_enum[1]],
                        save_ok)
        IN daemon' =
             IF sensitivity_enum = None
             THEN [daemon EXCEPT !.ipc.success = FALSE, !.ipc.req = q]
             ELSE IF ~u.ok
             THEN [daemon EXCEPT !.config = u.config, !.file = u.file,
                                 !.ipc.success = FALSE, !.ipc.req = q]
             ELSE [daemon EXCEPT !.config = u.config, !.file = u.file,
                                 !.ipc = [pc |-> "want_lock", op |-> "set_sensitivity",
                                          arg |-> sensitivity_enum[1], success |-> TRUE,
                                          req |-> q]]
  /\ UNCHANGED <<controller, clock, lastNow, lastSomeAt, decidesLeft, phase>>

\* IpcCommand::SetDeviceMode up to controller.write().await; M is the set of
\* mode strings
IpcSetDeviceMode(M) ==
  /\ daemon.ipc.pc = "idle"
  /\ DaemonEvent("SetDeviceMode")
  /\ \E m \in M :
        LET mode_enum == parse_device_mode(m)
        IN daemon' =
             IF mode_enum = None
             THEN [daemon EXCEPT !.ipc.success = FALSE, !.ipc.req = <<m>>]
             ELSE [daemon EXCEPT
                     !.ipc = [pc |-> "want_lock", op |-> "apply_mode_constraints",
                              arg |-> mode_enum[1], success |-> TRUE, req |-> <<m>>]]
  /\ UNCHANGED <<controller, clock, lastNow, lastSomeAt, decidesLeft, phase>>

\* state.controller.write().await returns the guard to the connection
IpcLock ==
  /\ daemon.ipc.pc = "want_lock"
  /\ write_granted(daemon.writers)
  /\ DaemonStep([daemon EXCEPT !.writers = @ \cup {"ipc"}, !.ipc.pc = "locked"])
  /\ UNCHANGED <<controller, clock, lastNow, lastSomeAt, last, decidesLeft, configsLeft,
                 phase>>

\* controller.set_sensitivity(..) or controller.apply_mode_constraints(..);
\* the guard is dropped when the arm ends
IpcMutate ==
  /\ daemon.ipc.pc = "locked"
  /\ controller' = IF daemon.ipc.op = "set_sensitivity"
                   THEN set_sensitivity(controller, daemon.ipc.arg)
                   ELSE apply_mode_constraints(controller, daemon.ipc.arg)
  /\ last' = Event(daemon.ipc.op)
  /\ DaemonStep([daemon EXCEPT !.writers = @ \ {"ipc"}, !.ipc.pc = "idle"])
  /\ UNCHANGED <<clock, lastNow, lastSomeAt, decidesLeft, configsLeft, phase>>

\* --- wake handler (monitor_sleep_signals) ---
\* PrepareForSleep(false) arrives
WakeSignal ==
  /\ daemon.wake.pc = "idle"
  /\ DaemonEvent("wake")
  /\ daemon' = [daemon EXCEPT !.wake.pc = "want_lock"]
  /\ UNCHANGED <<controller, clock, lastNow, lastSomeAt, decidesLeft, phase>>

WakeLock ==
  /\ daemon.wake.pc = "want_lock"
  /\ write_granted(daemon.writers)
  /\ DaemonStep([daemon EXCEPT !.writers = @ \cup {"wake"}, !.wake.pc = "locked"])
  /\ UNCHANGED <<controller, clock, lastNow, lastSomeAt, last, decidesLeft, configsLeft,
                 phase>>

\* controller.reset_state(); drop(controller)
WakeReset ==
  /\ daemon.wake.pc = "locked"
  /\ controller' = reset_state(controller, clock)
  /\ last' = Event("reset_state")
  /\ DaemonStep([daemon EXCEPT !.writers = @ \ {"wake"}, !.wake.pc = "idle"])
  /\ UNCHANGED <<clock, lastNow, lastSomeAt, decidesLeft, configsLeft, phase>>

\* --- external-display monitor ---
\* has_external_display().await answers
MonitorCheck ==
  /\ daemon.monitor.pc = "idle"
  /\ DaemonEvent("has_external_display")
  /\ \E detected \in BOOLEAN :
        daemon' = [daemon EXCEPT !.monitor = [pc |-> "want_lock", detected |-> detected]]
  /\ UNCHANGED <<controller, clock, lastNow, lastSomeAt, decidesLeft, phase>>

MonitorLock ==
  /\ daemon.monitor.pc = "want_lock"
  /\ write_granted(daemon.writers)
  /\ DaemonStep([daemon EXCEPT !.writers = @ \cup {"monitor"}, !.monitor.pc = "locked"])
  /\ UNCHANGED <<controller, clock, lastNow, lastSomeAt, last, decidesLeft, configsLeft,
                 phase>>

\* if the answer differs from the controller's flag:
\* controller.set_external_display_detected(detected)
MonitorSet ==
  /\ daemon.monitor.pc = "locked"
  /\ controller' = IF daemon.monitor.detected # controller.external_display_detected
                   THEN set_external_display_detected(controller, daemon.monitor.detected)
                   ELSE controller
  /\ last' = Event("set_external_display_detected")
  /\ DaemonStep([daemon EXCEPT !.writers = @ \ {"monitor"}, !.monitor.pc = "idle"])
  /\ UNCHANGED <<clock, lastNow, lastSomeAt, decidesLeft, configsLeft, phase>>

\* --- FPS poller ---
\* if state.is_running(): reader.poll() yields an FPS in F and the poller
\* stores it (try_write; a contended lock leaves the old value)
FpsPoll(F) ==
  /\ daemon.running
  /\ \E fps \in F :
        /\ fps # daemon.current_fps
        /\ DaemonStep([daemon EXCEPT !.current_fps = fps])
  /\ UNCHANGED <<controller, clock, lastNow, lastSomeAt, last, decidesLeft, configsLeft,
                 phase>>

\* what SpecDaemon draws from
DaemonFiles == {None, Some(to_string_pretty([Config_default EXCEPT !.enabled = FALSE]))}

DaemonFps == {0, 300}

DaemonClockSteps == {2, 10}

DaemonRequests == {<<90, 90, "AGGRESSIVE">>, <<45, 60, "conservative">>,
                   <<60, 45, "Balanced">>, <<40, 90, "fast">>,
                   <<30, 90, "balanced">>, <<40, 120, "balanced">>}

DaemonModes == {"LCD", "custom", "tv"}

InitDaemon ==
  \E file \in DaemonFiles :
    /\ load_or_default(file).ok
    /\ controller = new(load_or_default(file).config.sensitivity)
    /\ daemon = Daemon_new(load_or_default(file).config, file)
    /\ clock = 0
    /\ lastNow = 0
    /\ lastSomeAt = None
    /\ last = NoCall
    /\ decidesLeft = DaemonTicks
    /\ configsLeft = DaemonEvents
    /\ phase = "free"

NextDaemon ==
  \/ LoopWake
  \/ LoopRead
  \/ LoopLock
  \/ LoopProcess
  \/ LoopSetRange
  \/ LoopSetRefreshRate
  \/ HelperReturns
  \/ LoopPublish
  \/ LoopRecordSwitch
  \/ LoopRecordTransition
  \/ IpcStart
  \/ IpcStop
  \/ IpcSetConfig(DaemonRequests)
  \/ IpcSetDeviceMode(DaemonModes)
  \/ IpcLock
  \/ IpcMutate
  \/ WakeSignal
  \/ WakeLock
  \/ WakeReset
  \/ MonitorCheck
  \/ MonitorLock
  \/ MonitorSet
  \/ FpsPoll(DaemonFps)
  \/ Tick(DaemonClockSteps)

SpecDaemon == InitDaemon /\ [][NextDaemon]_vars

\* ------------------------------------------------------------------------
\* SpecIpc: the IPC server task (run_ipc_server_with_panic_catch,
\* IpcServer::run) and the tasks it spawns per connection
\* (handle_connection), with clients that write lines and close.
\* ------------------------------------------------------------------------
\* failed binds in one behaviour
MaxBindFailures == 1

\* lines a client writes on one connection
MaxLines == 2

\* the request lines clients write: commands, a blank line, and a line that
\* is not a command
RequestLines == {"{\"command\":\"start\"}", "{\"command\":\"stop\"}", "  ", "start"}

\* str::trim on the request lines of the model
trim(line) == IF line = "  " THEN "" ELSE line

\* serde_json::from_str::<IpcCommand>: Ok(command) as Some, Err as None
parse_command(trimmed) ==
  CASE trimmed = "{\"command\":\"start\"}" -> Some("Start")
    [] trimmed = "{\"command\":\"stop\"}" -> Some("Stop")
    [] OTHER -> None

\* run_ipc_server_inner: IpcServer::new_default().await? binds the socket or
\* returns the error to the wrapper, which logs it and sleeps 5 s
ServerBind ==
  /\ phase = "free"
  /\ daemon.server.pc = "bind"
  /\ \E bound \in BOOLEAN :
        IF bound
        THEN daemon' = [daemon EXCEPT !.server.pc = "accept"]
        ELSE /\ daemon.server.bind_failures < MaxBindFailures
             /\ daemon' = [daemon EXCEPT !.server.pc = "backoff",
                                         !.server.bind_failures = @ + 1]
  /\ UNCHANGED <<controller, clock, lastNow, lastSomeAt, last, decidesLeft, configsLeft,
                 phase>>

\* the wrapper's sleep of 5 s ends and its loop calls run_ipc_server_inner
\* again
ServerRetry ==
  /\ phase = "free"
  /\ daemon.server.pc = "backoff"
  /\ daemon' = [daemon EXCEPT !.server.pc = "bind"]
  /\ UNCHANGED <<controller, clock, lastNow, lastSomeAt, last, decidesLeft, configsLeft,
                 phase>>

\* IpcServer::run: listener.accept() yields a stream and the server spawns
\* handle_connection for it
ServerAccept ==
  /\ phase = "free"
  /\ daemon.server.pc = "accept"
  /\ \E c \in Conns :
        /\ daemon.conns[c].pc = "none"
        /\ daemon' = [daemon EXCEPT !.conns[c].pc = "read"]
  /\ UNCHANGED <<controller, clock, lastNow, lastSomeAt, last, decidesLeft, configsLeft,
                 phase>>

\* the client of connection c writes a line
ClientWrite ==
  /\ phase = "free"
  /\ \E c \in Conns, line \in RequestLines :
        /\ daemon.conns[c].pc \notin {"none"}
        /\ ~daemon.conns[c].eof
        /\ daemon.conns[c].sent < MaxLines
        /\ daemon' = [daemon EXCEPT
              !.conns[c].sent = @ + 1,
              !.conns[c].inbox = Append(@, [n |-> daemon.conns[c].sent + 1,
                                            text |-> line])]
  /\ UNCHANGED <<controller, clock, lastNow, lastSomeAt, last, decidesLeft, configsLeft,
                 phase>>

\* the client of connection c closes its end
ClientClose ==
  /\ phase = "free"
  /\ \E c \in Conns :
        /\ daemon.conns[c].pc \notin {"none"}
        /\ ~daemon.conns[c].eof
        /\ daemon' = [daemon EXCEPT !.conns[c].eof = TRUE]
  /\ UNCHANGED <<controller, clock, lastNow, lastSomeAt, last, decidesLeft, configsLeft,
                 phase>>

\* handle_connection: reader.read_line(&mut line).await? returns a line, or
\* 0 at end of input (the task ends with Ok), or an error (the task ends
\* with Err); a line that is empty after trim is skipped
ConnRead_bad ==
  /\ phase = "free"
  /\ \E c \in Conns :
        LET conn == daemon.conns[c]
        IN /\ conn.pc = "read"
           /\ \/ /\ conn.inbox # <<>>
                 /\ daemon' = [daemon EXCEPT !.conns[c] =
                       IF trim(Head(conn.inbox).text) = ""
                       THEN [conn EXCEPT !.inbox = Tail(@)]
                       ELSE [conn EXCEPT !.inbox = Tail(@),
                                         !.cur = <<Head(conn.inbox)>>,
                                         !.reads = Append(@, Head(conn.inbox).n)]]
              \/ /\ conn.inbox = <<>>
                 /\ conn.eof
                 /\ daemon' = [daemon EXCEPT !.conns[c].pc = "closed"]
              \/ daemon' = [daemon EXCEPT !.conns[c].pc = "failed"]
  /\ UNCHANGED <<controller, clock, lastNow, lastSomeAt, last, decidesLeft, configsLeft,
                 phase>>

ConnRead ==
  /\ phase = "free"
  /\ \E c \in Conns :
        LET conn == daemon.conns[c]
        IN /\ conn.pc = "read"
           /\ \/ /\ conn.inbox # <<>>
                 /\ daemon' = [daemon EXCEPT !.conns[c] =
                       IF trim(Head(conn.inbox).text) = ""
                       THEN [conn EXCEPT !.inbox = Tail(@)]
                       ELSE [conn EXCEPT !.inbox = Tail(@),
                                         !.cur = <<Head(conn.inbox)>>,
                                         !.reads = Append(@, Head(conn.inbox).n),
                                         !.pc = "handle"]]
              \/ /\ conn.inbox = <<>>
                 /\ conn.eof
                 /\ daemon' = [daemon EXCEPT !.conns[c].pc = "closed"]
              \/ daemon' = [daemon EXCEPT !.conns[c].pc = "failed"]
  /\ UNCHANGED <<controller, clock, lastNow, lastSomeAt, last, decidesLeft, configsLeft,
                 phase>>

\* handle_connection: parse the line and handle the command (Start and Stop
\* store the running flag), or answer that the command is invalid
ConnHandle ==
  /\ phase = "free"
  /\ \E c \in Conns :
        LET conn == daemon.conns[c]
            command == parse_command(trim(conn.cur[1].text))
        IN /\ conn.pc = "handle"
           /\ daemon' = [daemon EXCEPT
                 !.running = IF command = None THEN @ ELSE command[1] = "Start",
                 !.conns[c].resp =
                    <<[to |-> conn.cur[1].n,
                       body |-> IF command = None THEN "Invalid command"
                                ELSE IF command[1] = "Start" THEN "Daemon started"
                                ELSE "Daemon stopped"]>>,
                 !.conns[c].pc = "write"]
  /\ UNCHANGED <<controller, clock, lastNow, lastSomeAt, last, decidesLeft, configsLeft,
                 phase>>

\* handle_connection: write the response line and flush; an error ends the
\* task with Err
ConnWrite ==
  /\ phase = "free"
  /\ \E c \in Conns, written \in BOOLEAN :
        LET conn == daemon.conns[c]
        IN /\ conn.pc = "write"
           /\ daemon' = [daemon EXCEPT !.conns[c] =
                 IF written
                 THEN [conn EXCEPT !.out = Append(@, conn.resp[1]), !.cur = <<>>,
                                   !.resp = <<>>, !.pc = "read"]
                 ELSE [conn EXCEPT !.pc = "failed"]]
  /\ UNCHANGED <<controller, clock, lastNow, lastSomeAt, last, decidesLeft, configsLeft,
                 phase>>

InitIpc ==
    /\ controller = new(Config_default.sensitivity)
    /\ daemon = Daemon_new(Config_default, None)
    /\ clock = 0
    /\ lastNow = 0
    /\ lastSomeAt = None
    /\ last = NoCall
    /\ decidesLeft = 0
    /\ configsLeft = 0
    /\ phase = "free"

NextIpc ==
  \/ ServerBind
  \/ ServerRetry
  \/ ServerAccept
  \/ ClientWrite
  \/ ClientClose
  \/ ConnRead
  \/ ConnHandle
  \/ ConnWrite

SpecIpc == InitIpc /\ [][NextIpc]_vars

\* ------------------------------------------------------------------------
\* SpecShutdown: the shutdown signal and the tasks run_daemon joins: the
\* control loop, the FPS polling task and the IPC server task, with the
\* wake handler contending for the controller.  `shutdown` is the value of
\* the watch channel; a task that awaits shutdown_rx.changed() in a select!
\* takes that branch once the value has been sent.
\* ------------------------------------------------------------------------
\* ticks of the control loop in one behaviour of SpecShutdown
ShutdownTicks == 2

\* wake signals in one behaviour of SpecShutdown
ShutdownEvents == 1

\* setup_signal_handlers: SIGTERM or SIGINT arrives, shutdown_tx.send(true)
ShutdownSignal ==
  /\ ~daemon.shutdown
  /\ DaemonStep([daemon EXCEPT !.shutdown = TRUE])
  /\ UNCHANGED <<controller, clock, lastNow, lastSomeAt, last, decidesLeft, configsLeft,
                 phase>>

\* control loop: the shutdown branch of its select!, taken while it sleeps
LoopShutdown ==
  /\ daemon.loop.pc = "sleep"
  /\ daemon.shutdown
  /\ DaemonStep([daemon EXCEPT !.loop.pc = "exited"])
  /\ UNCHANGED <<controller, clock, lastNow, lastSomeAt, last, decidesLeft, configsLeft,
                 phase>>

\* IPC server task: the shutdown branch of its select!, taken while
\* run_ipc_server_inner is pending or about to be polled
ServerShutdown ==
  /\ daemon.server.pc \in {"bind", "accept"}
  /\ daemon.shutdown
  /\ DaemonStep([daemon EXCEPT !.server.pc = "exited"])
  /\ UNCHANGED <<controller, clock, lastNow, lastSomeAt, last, decidesLeft, configsLeft,
                 phase>>

\* FPS polling task, head of the outer loop: break if shutdown is set, else
\* MangoHudReader::new(), which connects or fails
FpsTaskConnect ==
  /\ daemon.fps_task.pc = "top"
  /\ \E connected \in BOOLEAN :
        DaemonStep([daemon EXCEPT !.fps_task.pc =
          IF daemon.shutdown THEN "exited"
          ELSE IF connected THEN "poll" ELSE "fallback"])
  /\ UNCHANGED <<controller, clock, lastNow, lastSomeAt, last, decidesLeft, configsLeft,
                 phase>>

\* FPS polling task in fallback mode: the retry sleep ends
FpsTaskRetry ==
  /\ daemon.fps_task.pc = "fallback"
  /\ DaemonStep([daemon EXCEPT !.fps_task.pc = "top"])
  /\ UNCHANGED <<controller, clock, lastNow, lastSomeAt, last, decidesLeft, configsLeft,
                 phase>>

\* FPS polling task: the shutdown branch of the select! of the fallback
\* wait or of the poll loop
FpsTaskShutdown ==
  /\ daemon.fps_task.pc \in {"fallback", "poll"}
  /\ daemon.shutdown
  /\ DaemonStep([daemon EXCEPT !.fps_task.pc = "exited"])
  /\ UNCHANGED <<controller, clock, lastNow, lastSomeAt, last, decidesLeft, configsLeft,
                 phase>>

\* FPS polling task, poll loop: the poll sleep ends; if the daemon is
\* running, reader.poll() yields an FPS in F, which is stored, or an error,
\* which leaves the poll loop
FpsTaskPoll(F) ==
  /\ daemon.fps_task.pc = "poll"
  /\ daemon.running
  /\ \/ \E fps \in F :
          /\ fps # daemon.current_fps
          /\ DaemonStep([daemon EXCEPT !.current_fps = fps])
     \/ DaemonStep([daemon EXCEPT !.fps_task.pc = "top"])
  /\ UNCHANGED <<controller, clock, lastNow, lastSomeAt, last, decidesLeft, configsLeft,
                 phase>>

\* run_daemon: shutdown_rx_main.changed().await returns
MainShutdown ==
  /\ daemon.main.pc = "wait"
  /\ daemon.shutdown
  /\ DaemonStep([daemon EXCEPT !.main.pc = "join"])
  /\ UNCHANGED <<controller, clock, lastNow, lastSomeAt, last, decidesLeft, configsLeft,
                 phase>>

\* run_daemon: join!(ipc_handle, fps_handle, logic_handle) completes
MainJoined ==
  /\ daemon.main.pc = "join"
  /\ daemon.server.pc = "exited"
  /\ daemon.fps_task.pc = "exited"
  /\ daemon.loop.pc \in {"exited", "panicked"}
  /\ DaemonStep([daemon EXCEPT !.main.pc = "returned"])
  /\ UNCHANGED <<controller, clock, lastNow, lastSomeAt, last, decidesLeft, configsLeft,
                 phase>>

\* run_daemon: the timeout of SHUTDOWN_TIMEOUT_SECS around the join elapses
MainTimeout_bad ==
  /\ daemon.main.pc = "join"
  /\ daemon.loop.pc \in {"exited", "panicked"}
  /\ DaemonStep([daemon EXCEPT !.main.pc = "returned"])
  /\ UNCHANGED <<controller, clock, lastNow, lastSomeAt, last, decidesLeft, configsLeft,
                 phase>>

MainTimeout ==
  /\ daemon.main.pc = "join"
  /\ DaemonStep([daemon EXCEPT !.main.pc = "returned"])
  /\ UNCHANGED <<controller, clock, lastNow, lastSomeAt, last, decidesLeft, configsLeft,
                 phase>>

ShutdownFps == {300}

ShutdownClockSteps == {10}

InitShutdown ==
  /\ controller = new(Config_default.sensitivity)
  /\ daemon = Daemon_new(Config_default, None)
  /\ clock = 0
  /\ lastNow = 0
  /\ lastSomeAt = None
  /\ last = NoCall
  /\ decidesLeft = ShutdownTicks
  /\ configsLeft = ShutdownEvents
  /\ phase = "free"

NextShutdown ==
  \/ ShutdownSignal
  \/ LoopWake
  \/ LoopRead
  \/ LoopLock
  \/ LoopProcess
  \/ LoopSetRange
  \/ LoopSetRefreshRate
  \/ HelperReturns
  \/ LoopPublish
  \/ LoopRecordSwitch
  \/ LoopRecordTransition
  \/ LoopShutdown
  \/ WakeSignal
  \/ WakeLock
  \/ WakeReset
  \/ ServerBind
  \/ ServerRetry
  \/ ServerShutdown
  \/ FpsTaskConnect
  \/ FpsTaskRetry
  \/ FpsTaskShutdown
  \/ FpsTaskPoll(ShutdownFps)
  \/ MainShutdown
  \/ MainJoined
  \/ MainTimeout
  \/ Tick(ShutdownClockSteps)

\* Scheduling: the runtime keeps polling every task that can make progress
\* (weak fairness of each step); a select! chooses at random among its
\* ready branches, and the RwLock queues its writers, so a shutdown branch
\* or a lock request that is ready again and again is taken (strong
\* fairness).  Nothing is assumed of the helper: gamescope-cmd may never
\* return.
FairShutdown ==
  /\ WF_vars(LoopRead)
  /\ SF_vars(LoopLock)
  /\ WF_vars(LoopProcess)
  /\ WF_vars(LoopSetRange)
  /\ WF_vars(LoopSetRefreshRate)
  /\ WF_vars(LoopPublish)
  /\ WF_vars(LoopRecordSwitch)
  /\ WF_vars(LoopRecordTransition)
  /\ SF_vars(LoopShutdown)
  /\ WF_vars(WakeLock)
  /\ WF_vars(WakeReset)
  /\ WF_vars(ServerRetry)
  /\ SF_vars(ServerShutdown)
  /\ WF_vars(FpsTaskConnect)
  /\ WF_vars(FpsTaskRetry)
  /\ SF_vars(FpsTaskShutdown)
  /\ WF_vars(MainShutdown)
  /\ WF_vars(MainTimeout)

SpecShutdown == InitShutdown /\ [][NextShutdown]_vars /\ FairShutdown

\* ------------------------------------------------------------------------
\* SpecLoad: start-up of the daemon from a configuration file.  Before
\* run_daemon has loaded the configuration (phase "load") only the file
\* counts; afterwards the daemon is started with the loaded configuration
\* (phase "started") or run_daemon has returned the error (phase "aborted").
\* ------------------------------------------------------------------------
LoadMinHz == {30, 40, 60, 90}

LoadMaxHz == {45, 90, 120}

LoadSensitivity == {"conservative", "balanced", "aggressive", "Balanced", "fast"}

LoadFiles ==
  {None} \cup
  { Some([json |-> j, min_hz |-> lo, max_hz |-> hi, sensitivity |-> sn, enabled |-> en]) :
      j \in BOOLEAN, lo \in LoadMinHz, hi \in LoadMaxHz, sn \in LoadSensitivity,
      en \in BOOLEAN }

\* run_daemon: ConfigManager::load_or_default(&config_path)?, then
\* DaemonState::new and DisplayManager::new from the configuration
RunDaemon ==
  /\ phase = "load"
  /\ LET r == load_or_default(daemon.file)
     IN IF r.ok
        THEN /\ phase' = "started"
             /\ controller' = new(r.config.sensitivity)
             /\ daemon' = Daemon_new(r.config, daemon.file)
        ELSE /\ phase' = "aborted"
             /\ UNCHANGED <<controller, daemon>>
  /\ UNCHANGED <<clock, lastNow, lastSomeAt, last, decidesLeft, configsLeft>>

InitLoad ==
  \E file \in LoadFiles :
    /\ controller = new(Config_default.sensitivity)
    /\ daemon = Daemon_new(Config_default, file)
    /\ clock = 0
    /\ lastNow = 0
    /\ lastSomeAt = None
    /\ last = NoCall
    /\ decidesLeft = 0
    /\ configsLeft = 0
    /\ phase = "load"

NextLoad == RunDaemon

SpecLoad == InitLoad /\ [][NextLoad]_vars

\* ------------------------------------------------------------------------
\* SpecRolling: the two rolling windows, each fed by its own stream of
\* samples.  A stream repeats a short pattern; daemon.ring_pushed and
\* daemon.window_pushed keep every value handed to push, in push order.
\* ------------------------------------------------------------------------
RING_BUFFER_CAPACITY == 120

\* FpsSample::new, with Instant::now() read from the clock
FpsSample_new(fps, frametime) ==
  [fps |-> fps, frametime |-> frametime, timestamp |-> clock]

FpsRingBuffer_with_capacity(capacity) == [samples |-> <<>>, capacity |-> capacity]

FpsRingBuffer_new == FpsRingBuffer_with_capacity(RING_BUFFER_CAPACITY)

FpsRingBuffer_push(b, sample) ==
  LET kept == IF Len(b.samples) >= b.capacity THEN Tail(b.samples) ELSE b.samples
  IN [b EXCEPT !.samples = Append(kept, sample)]

RingPushes == 123

WindowPushes == 12

\* <<fps, frametime>> patterns read from MangoHud
RingStreams ==
  { << <<60, 16666>> >>,
    << <<60, 16666>>, <<30, 33333>> >>,
    << <<60, 16666>>, <<30, 33333>>, <<90, 11111>> >> }

\* FPS patterns handed to the variance window, in tenths
WindowStreams == { <<600>>, <<300, 600>>, <<450, 600, 300>> }

\* the n-th value of a stream, n counted from 0
StreamAt(s, n) == s[(n % Len(s)) + 1]

\* one poll: the sample read is pushed into the ring buffer
RingPush ==
  /\ Len(daemon.ring_pushed) < RingPushes
  /\ LET v == StreamAt(daemon.ring_stream, Len(daemon.ring_pushed))
         sample == FpsSample_new(v[1], v[2])
     IN daemon' = [daemon EXCEPT
                     !.ring_buffer = FpsRingBuffer_push(@, sample),
                     !.ring_pushed = Append(@, sample)]
  /\ clock' = clock + FPS_POLL_INTERVAL_MS
  /\ UNCHANGED <<controller, lastNow, lastSomeAt, last, decidesLeft, configsLeft, phase>>

\* one FPS value is pushed into the variance window
WindowPush ==
  /\ Len(daemon.window_pushed) < WindowPushes
  /\ LET fps == StreamAt(daemon.window_stream, Len(daemon.window_pushed))
     IN daemon' = [daemon EXCEPT
                     !.fps_window = push(@, fps),
                     !.window_pushed = Append(@, fps)]
  /\ UNCHANGED <<controller, clock, lastNow, lastSomeAt, last, decidesLeft, configsLeft,
                 phase>>

InitRolling ==
  \E rs \in RingStreams, ws \in WindowStreams :
    /\ controller = new("Balanced")
    /\ daemon = [ring_buffer |-> FpsRingBuffer_new,
                 fps_window |-> window_new(ADAPTIVE_WINDOW_SIZE),
                 ring_stream |-> rs, window_stream |-> ws,
                 ring_pushed |-> <<>>, window_pushed |-> <<>>]
    /\ clock = 0
    /\ lastNow = 0
    /\ lastSomeAt = None
    /\ last = NoCall
    /\ decidesLeft = 0
    /\ configsLeft = 0
    /\ phase = "free"

NextRolling == RingPush \/ WindowPush

SpecRolling == InitRolling /\ [][NextRolling]_vars

\* ------------------------------------------------------------------------
\* SpecProfiles: the ProfileManager under any sequence of set_profile,
\* remove_profile, set_current_game and set_global_default.  The HashMap
\* is a function from the AppIDs that have a profile; daemon.ops keeps the
\* calls made, in order.
\* ------------------------------------------------------------------------
GameProfile_new(app_id, name, min_hz, max_hz, sensitivity) ==
  [app_id |-> app_id, name |-> name, min_hz |-> min_hz, max_hz |-> max_hz,
   sensitivity |-> sensitivity, adaptive_sensitivity |-> FALSE]

get_sensitivity(profile) ==
  LET s == to_lowercase(profile.sensitivity)
  IN CASE s = "conservative" -> "Conservative"
       [] s = "aggressive" -> "Aggressive"
       [] OTHER -> "Balanced"

GlobalDefault_default ==
  [min_hz |-> 40, max_hz |-> 90, sensitivity |-> "balanced",
   adaptive_sensitivity |-> FALSE]

ProfileManager_default ==
  [profiles |-> <<>>, current_app_id |-> None, global_default |-> GlobalDefault_default]

\* HashMap::insert and HashMap::remove
insert(map, key, value) ==
  [k \in DOMAIN map \cup {key} |-> IF k = key THEN value ELSE map[k]]

remove(map, key) == [k \in DOMAIN map \ {key} |-> map[k]]

set_profile(pm, profile) ==
  [pm EXCEPT !.profiles = insert(@, profile.app_id, profile)]

remove_profile_bad(pm, app_id) == pm

remove_profile(pm, app_id) == [pm EXCEPT !.profiles = remove(@, app_id)]

set_current_game(pm, app_id) == [pm EXCEPT !.current_app_id = app_id]

get_current_settings(pm) ==
  IF /\ pm.current_app_id # None
     /\ pm.current_app_id[1] \in DOMAIN pm.profiles
  THEN LET profile == pm.profiles[pm.current_app_id[1]]
       IN <<profile.min_hz, profile.max_hz, get_sensitivity(profile),
            profile.adaptive_sensitivity>>
  ELSE LET s == to_lowercase(pm.global_default.sensitivity)
           sensitivity == CASE s = "conservative" -> "Conservative"
                            [] s = "aggressive" -> "Aggressive"
                            [] OTHER -> "Balanced"
       IN <<pm.global_default.min_hz, pm.global_default.max_hz, sensitivity,
            pm.global_default.adaptive_sensitivity>>

set_global_default(pm, min_hz, max_hz, sensitivity, adaptive) ==
  [pm EXCEPT !.global_default =
     [min_hz |-> min_hz, max_hz |-> max_hz, sensitivity |-> sensitivity,
      adaptive_sensitivity |-> adaptive]]

ProfileOps == 4

AppIds == {"570", "730"}

\* <<min_hz, max_hz, sensitivity, adaptive>> of a profile or of the defaults
ProfileSettings ==
  { <<40, 60, "Aggressive", FALSE>>, <<45, 90, "conservative", TRUE>>,
    <<40, 90, "fast", TRUE>> }

ProfileStep(pm, op) ==
  /\ Len(daemon.ops) < ProfileOps
  /\ daemon' = [daemon EXCEPT !.pm = pm, !.ops = Append(@, op)]
  /\ UNCHANGED <<controller, clock, lastNow, lastSomeAt, last, decidesLeft, configsLeft,
                 phase>>

SetProfile ==
  \E id \in AppIds, q \in ProfileSettings :
    LET profile == [GameProfile_new(id, "game", q[1], q[2], q[3])
                      EXCEPT !.adaptive_sensitivity = q[4]]
    IN ProfileStep(set_profile(daemon.pm, profile),
                   [op |-> "set_profile", profile |-> profile])

RemoveProfile ==
  \E id \in AppIds :
    ProfileStep(remove_profile(daemon.pm, id), [op |-> "remove_profile", app_id |-> id])

SetCurrentGame ==
  \E g \in {None} \cup {Some(id) : id \in AppIds} :
    ProfileStep(set_current_game(daemon.pm, g), [op |-> "set_current_game", app_id |-> g])

SetGlobalDefault ==
  \E q \in ProfileSettings :
    ProfileStep(set_global_default(daemon.pm, q[1], q[2], q[3], q[4]),
                [op |-> "set_global_default", settings |-> q])

InitProfiles ==
  /\ controller = new("Balanced")
  /\ daemon = [pm |-> ProfileManager_default, ops |-> <<>>]
  /\ clock = 0
  /\ lastNow = 0
  /\ lastSomeAt = None
  /\ last = NoCall
  /\ decidesLeft = 0
  /\ configsLeft = 0
  /\ phase = "free"

NextProfiles == SetProfile \/ RemoveProfile \/ SetCurrentGame \/ SetGlobalDefault

SpecProfiles == InitProfiles /\ [][NextProfiles]_vars

\* ------------------------------------------------------------------------
\* SpecClamp: clamp_hz on a DisplayManager built for a range [a, b] with
\* 40 <= a <= b <= 90, applied to a requested rate and then to its own
\* result.  daemon.clamped and daemon.again hold the two results.
\* ------------------------------------------------------------------------
\* requested rates (u32): every rate around the allowed range, 0, 200 and
\* 2^31 - 1
ClampRequests == (35 .. 95) \cup {0, 200, 2147483647}

ClampRanges ==
  {r \in (MIN_ALLOWED_HZ .. MAX_ALLOWED_HZ) \X (MIN_ALLOWED_HZ .. MAX_ALLOWED_HZ) :
     r[1] <= r[2]}

ClampFirst ==
  /\ phase = "start"
  /\ daemon' = [daemon EXCEPT !.clamped = Some(clamp_hz(daemon.dm, daemon.requested_hz))]
  /\ phase' = "clamped"
  /\ UNCHANGED <<controller, clock, lastNow, lastSomeAt, last, decidesLeft, configsLeft>>

ClampAgain ==
  /\ phase = "clamped"
  /\ daemon' = [daemon EXCEPT !.again = Some(clamp_hz(daemon.dm, daemon.clamped[1]))]
  /\ phase' = "done"
  /\ UNCHANGED <<controller, clock, lastNow, lastSomeAt, last, decidesLeft, configsLeft>>

InitClamp ==
  \E r \in ClampRanges, x \in ClampRequests :
    /\ controller = new("Balanced")
    /\ daemon = [dm |-> DisplayManager_new(r[1], r[2]), a |-> r[1], b |-> r[2],
                 requested_hz |-> x, clamped |-> None, again |-> None]
    /\ clock = 0
    /\ lastNow = 0
    /\ lastSomeAt = None
    /\ last = NoCall
    /\ decidesLeft = 0
    /\ configsLeft = 0
    /\ phase = "start"

NextClamp == ClampFirst \/ ClampAgain

SpecClamp == InitClamp /\ [][NextClamp]_vars

\* ------------------------------------------------------------------------
\* SpecFrame: process_with_time calls whose samples reach the two
\* suppressed outcomes of a ready pending state: 56.0 FPS at 59 Hz (drop
\* target 55, inside the 5 Hz deadband) and 70.0 FPS at 60 Hz under a user
\* range 40-62 (next step 60, not above the current rate).
\* ------------------------------------------------------------------------
\* process_with_time calls in one behaviour of SpecFrame
FrameDecides == 4

\* set_user_range calls in one behaviour of SpecFrame
FrameConfigs == 1

FrameSamples == {<<560, 59>>, <<450, 60>>, <<700, 60>>}

FrameRanges == {<<40, 62>>}

InitFrame == \E s \in Sensitivity : Fresh(new(s), FrameDecides, FrameConfigs, "free")

NextFrame == ProcessWithTime(FrameSamples, NowSteps) \/ SetUserRange(FrameRanges)

SpecFrame == InitFrame /\ [][NextFrame]_vars

\* ------------------------------------------------------------------------
\* SpecOsc: a constant FPS, process_with_time called every 100 ms without
\* end, each returned rate applied (current_hz := target).  The engine only
\* compares differences of instants, so the instants are kept relative to
\* the call: every call is made at the instant OscHorizon, and after it the
\* instants the controller holds are moved 100 ms into the past, an instant
\* older than the horizon staying at 0.  The horizon is longer than every
\* wait and every minimum change interval.
\* ------------------------------------------------------------------------
OscHorizon == 6000

\* the controller with its instants d ms further in the past
Earlier(c, d) ==
  [c EXCEPT !.state = IF @.kind = "Stable" THEN @
                      ELSE [@ EXCEPT !.since = Max(@ - d, 0)],
            !.last_change = IF IsSome(@) THEN Some(Max(@[1] - d, 0)) ELSE @]

\* constant FPS, in tenths
OscFps == {300, 570, 575, 580, 620, 950}

\* arguments of set_fps_tolerance, in tenths
OscTolerances == {20, 25, 30, 50}

\* user ranges whose bounds are multiples of 5
OscRanges == {<<40, 90>>, <<45, 60>>, <<55, 55>>}

\* the rate the panel has when the observation starts
OscHz == {40, 60, 90}

\* one tick of the control loop: process(fps, current_hz), and the
\* returned rate becomes the current one
OscTick ==
  LET r == process_with_time(controller, daemon.current_fps, daemon.current_hz,
                             OscHorizon, OscHorizon)
  IN /\ ~r.panicked
     /\ controller' = Earlier(r.c, FPS_POLL_INTERVAL_MS)
     /\ last' = [op |-> "process_with_time", fps |-> daemon.current_fps,
                 hz |-> daemon.current_hz, now |-> OscHorizon, wall |-> OscHorizon,
                 res |-> r.res, panicked |-> r.panicked, branch |-> r.branch,
                 pre_state |-> controller.state, prevSome |-> None]
     /\ daemon' = [daemon EXCEPT !.current_hz = IF IsSome(r.res) THEN r.res[1] ELSE @]
     /\ UNCHANGED <<clock, lastNow, lastSomeAt, decidesLeft, configsLeft, phase>>

InitOsc ==
  \E s \in Sensitivity, f \in OscFps, t \in OscTolerances, r \in OscRanges, h \in OscHz :
    /\ controller = set_fps_tolerance(set_user_range(new(s), r[1], r[2]), t)
    /\ daemon = [current_fps |-> f, current_hz |-> h]
    /\ clock = OscHorizon
    /\ lastNow = 0
    /\ lastSomeAt = None
    /\ last = NoCall
    /\ decidesLeft = 0
    /\ configsLeft = 0
    /\ phase = "free"

NextOsc == OscTick

\* the control loop keeps ticking
FairOsc == WF_vars(OscTick)

SpecOsc == InitOsc /\ [][NextOsc]_vars /\ FairOsc

\* ------------------------------------------------------------------------
\* SpecRange: one DisplayManager shared by a caller of set_range and a
\* caller of clamp_hz.  min_hz and max_hz are two AtomicU32: set_range
\* stores one and then the other, clamp_hz loads one and then the other,
\* and the steps of the two callers interleave.  (The stores are Relaxed;
\* the model takes them in program order, which is one of the orders the
\* other thread may see.)
\* ------------------------------------------------------------------------
\* set_range calls in one behaviour of SpecRange
RangeCalls == 2

\* clamp_hz calls in one behaviour of SpecRange
ClampCalls == 2

\* arguments of set_range: swapped, out of bounds, low, high
RangeArgs == {<<70, 50>>, <<30, 120>>, <<40, 45>>, <<80, 90>>}

\* argument of clamp_hz
RangeHz == {60}

\* set_range up to the first store
SetRangeCall ==
  /\ daemon.writer.pc = "idle"
  /\ daemon.writer.calls < RangeCalls
  /\ \E a \in RangeArgs :
       LET r == ordered_range(a[1], a[2])
       IN daemon' = [daemon EXCEPT !.writer = [pc |-> "store_min", final_min |-> r[1],
                                               final_max |-> r[2], calls |-> @.calls + 1]]
  /\ UNCHANGED <<controller, clock, lastNow, lastSomeAt, last, decidesLeft, configsLeft,
                 phase>>

\* self.min_hz.store(final_min, Ordering::Relaxed)
SetRangeStoreMin ==
  /\ daemon.writer.pc = "store_min"
  /\ daemon' = [daemon EXCEPT !.dm.min_hz = daemon.writer.final_min,
                              !.writer.pc = "store_max"]
  /\ UNCHANGED <<controller, clock, lastNow, lastSomeAt, last, decidesLeft, configsLeft,
                 phase>>

\* self.max_hz.store(final_max, Ordering::Relaxed)
SetRangeStoreMax ==
  /\ daemon.writer.pc = "store_max"
  /\ daemon' = [daemon EXCEPT !.dm.max_hz = daemon.writer.final_max,
                              !.writer.pc = "idle"]
  /\ UNCHANGED <<controller, clock, lastNow, lastSomeAt, last, decidesLeft, configsLeft,
                 phase>>

\* clamp_hz: let min = self.min_hz.load(Ordering::Relaxed)
ClampLoadMin ==
  /\ daemon.reader.pc = "idle"
  /\ daemon.reader.calls < ClampCalls
  /\ \E hz \in RangeHz :
       daemon' = [daemon EXCEPT !.reader = [pc |-> "load_max", hz |-> hz,
                                            min |-> daemon.dm.min_hz, max |-> 0,
                                            result |-> None, panicked |-> FALSE,
                                            calls |-> @.calls + 1]]
  /\ UNCHANGED <<controller, clock, lastNow, lastSomeAt, last, decidesLeft, configsLeft,
                 phase>>

\* clamp_hz: let max = self.max_hz.load(Ordering::Relaxed); hz.clamp(min, max),
\* which panics when min > max
ClampLoadMax ==
  /\ daemon.reader.pc = "load_max"
  /\ LET min == daemon.reader.min
         max == daemon.dm.max_hz
     IN daemon' = [daemon EXCEPT
                     !.reader.max = max,
                     !.reader.pc = "idle",
                     !.reader.panicked = min > max,
                     !.reader.result = IF min > max THEN None
                                       ELSE Some(clamp(daemon.reader.hz, min, max))]
  /\ UNCHANGED <<controller, clock, lastNow, lastSomeAt, last, decidesLeft, configsLeft,
                 phase>>

InitRange ==
  /\ controller = new("Balanced")
  /\ daemon = [dm |-> DisplayManager_new(Config_default.min_hz, Config_default.max_hz),
               writer |-> [pc |-> "idle", final_min |-> 0, final_max |-> 0, calls |-> 0],
               reader |-> [pc |-> "idle", hz |-> 0, min |-> 0, max |-> 0, result |-> None,
                           panicked |-> FALSE, calls |-> 0]]
  /\ clock = 0
  /\ lastNow = 0
  /\ lastSomeAt = None
  /\ last = NoCall
  /\ decidesLeft = 0
  /\ configsLeft = 0
  /\ phase = "free"

NextRange ==
  SetRangeCall \/ SetRangeStoreMin \/ SetRangeStoreMax \/ ClampLoadMin \/ ClampLoadMax

SpecRange == InitRange /\ [][NextRange]_vars

\* ------------------------------------------------------------------------
\* MetricsCollector under concurrent use: the control loop's record_switch
\* (metrics.rs:59-92) and an IPC handler's get_metrics (metrics.rs:95-127)
\* run on different threads; every atomic access is one step
\* ------------------------------------------------------------------------
\* record_switch calls of the control loop
MetricsSwitches == 3

\* get_metrics calls of the IPC handlers
MetricsReads == 3

\* refresh rates before and after a Changed actuation
MetricsHz == {40, 60, 90}

\* record_switch: self.total_switches.fetch_add(1, Ordering::SeqCst)
RecordSwitchTotal ==
  /\ daemon.writer.pc = "idle"
  /\ daemon.writer.calls < MetricsSwitches
  /\ \E old_hz \in MetricsHz, new_hz \in MetricsHz :
       /\ old_hz # new_hz
       /\ daemon' = [daemon EXCEPT
                       !.metrics.total_switches = @ + 1,
                       !.writer = [pc |-> "direction", old_hz |-> old_hz,
                                   new_hz |-> new_hz, calls |-> @.calls + 1]]
  /\ UNCHANGED <<controller, clock, lastNow, lastSomeAt, last, decidesLeft, configsLeft,
                 phase>>

\* record_switch: if new_hz < old_hz { drop_count.fetch_add(1) }
\* else if new_hz > old_hz { increase_count.fetch_add(1) }
RecordSwitchDirection ==
  /\ daemon.writer.pc = "direction"
  /\ daemon' = [daemon EXCEPT
                  !.metrics.drop_count =
                     IF daemon.writer.new_hz < daemon.writer.old_hz THEN @ + 1 ELSE @,
                  !.metrics.increase_count =
                     IF daemon.writer.new_hz > daemon.writer.old_hz THEN @ + 1 ELSE @,
                  !.writer.pc = "idle"]
  /\ UNCHANGED <<controller, clock, lastNow, lastSomeAt, last, decidesLeft, configsLeft,
                 phase>>

\* get_metrics: total_switches: self.total_switches.load(Ordering::SeqCst)
GetMetricsLoadTotal ==
  /\ daemon.reader.pc = "idle"
  /\ daemon.reader.calls < MetricsReads
  /\ daemon' = [daemon EXCEPT
                  !.reader = [pc |-> "load_drop",
                              total_switches |-> daemon.metrics.total_switches,
                              drop_count |-> 0, calls |-> @.calls + 1]]
  /\ UNCHANGED <<controller, clock, lastNow, lastSomeAt, last, decidesLeft, configsLeft,
                 phase>>

\* get_metrics: drop_count: self.drop_count.load(Ordering::SeqCst)
GetMetricsLoadDrop ==
  /\ daemon.reader.pc = "load_drop"
  /\ daemon' = [daemon EXCEPT !.reader.drop_count = daemon.metrics.drop_count,
                              !.reader.pc = "load_increase"]
  /\ UNCHANGED <<controller, clock, lastNow, lastSomeAt, last, decidesLeft, configsLeft,
                 phase>>

\* get_metrics: increase_count: self.increase_count.load(Ordering::SeqCst); the
\* MetricsResponse is returned
GetMetricsLoadIncrease ==
  /\ daemon.reader.pc = "load_increase"
  /\ daemon' = [daemon EXCEPT
                  !.response = Some([total_switches |-> daemon.reader.total_switches,
                                     drop_count |-> daemon.reader.drop_count,
                                     increase_count |-> daemon.metrics.increase_count]),
                  !.reader.pc = "idle"]
  /\ UNCHANGED <<controller, clock, lastNow, lastSomeAt, last, decidesLeft, configsLeft,
                 phase>>

InitMetrics ==
  /\ controller = new("Balanced")
  /\ daemon = [metrics |-> MetricsCollector_new,
               writer |-> [pc |-> "idle", old_hz |-> 0, new_hz |-> 0, calls |-> 0],
               reader |-> [pc |-> "idle", total_switches |-> 0, drop_count |-> 0,
                           calls |-> 0],
               response |-> None]
  /\ clock = 0
  /\ lastNow = 0
  /\ lastSomeAt = None
  /\ last = NoCall
  /\ decidesLeft = 0
  /\ configsLeft = 0
  /\ phase = "free"

NextMetrics ==
  \/ RecordSwitchTotal
  \/ RecordSwitchDirection
  \/ GetMetricsLoadTotal
  \/ GetMetricsLoadDrop
  \/ GetMetricsLoadIncrease

SpecMetrics == InitMetrics /\ [][NextMetrics]_vars

\* ------------------------------------------------------------------------
\* Claims
\* ------------------------------------------------------------------------
\* the latest call is a process call (process, or process_with_time directly)
IsProcess == last.op = "process_with_time"

\* the effective range of the controller
EMin == get_effective_range(controller)[1]

EMax == get_effective_range(controller)[2]

\* C1: two successive process calls that return Some, at now_a and now_b,
\* are at least the minimum change interval of the device mode active at the
\* second call apart: 2000 ms in Lcd mode, 500 ms in Oled and Custom mode.
C1_MinChangeInterval ==
  (IsProcess /\ IsSome(last.res) /\ IsSome(last.prevSome))
    => last.now - last.prevSome[1]
         >= (IF controller.device_mode = "Lcd" THEN 2000 ELSE 500)

\* a second rate change exactly 500 ms after the first, outside Lcd mode
C1_Witness ==
  /\ IsProcess
  /\ IsSome(last.res)
  /\ IsSome(last.prevSome)
  /\ controller.device_mode # "Lcd"
  /\ last.now - last.prevSome[1] = 500

\* C2: every Some(target) returned by process is a multiple of 5 within the
\* effective range at the time of the call.
C2_QuantizedInRange ==
  (IsProcess /\ IsSome(last.res))
    => /\ last.res[1] % 5 = 0
       /\ EMin <= last.res[1]
       /\ last.res[1] <= EMax

\* C3: a process call whose fps is less than fps_tolerance away from
\* current_hz, with no external display and no resume cooldown running at
\* `now`, returns None and leaves the state Stable, whatever the state was.
C3_StickyTarget ==
  ( /\ IsProcess
    /\ Abs(last.fps - last.hz * 10) < controller.fps_tolerance
    /\ ~controller.external_display_detected
    /\ ~(IsSome(controller.resume_cooldown_until)
          /\ last.now < controller.resume_cooldown_until[1]) )
    => (last.res = None /\ ~last.panicked /\ controller.state = Stable)

\* a sticky sample ends a drop that had been pending for 2000 ms or more
C3_Witness ==
  /\ IsProcess
  /\ Abs(last.fps - last.hz * 10) < controller.fps_tolerance
  /\ ~controller.external_display_detected
  /\ controller.resume_cooldown_until = None
  /\ last.pre_state.kind = "Dropping"
  /\ last.now - last.pre_state.since >= 2000
  /\ controller.state = Stable

\* C4: after reset_state at t0 with cooldown c, every process call whose `now`
\* argument is below t0 + c returns None and leaves the state Stable.
C4_ResumeCooldownByNow ==
  ( /\ IsProcess
    /\ IsSome(controller.resume_cooldown_until)
    /\ last.now < controller.resume_cooldown_until[1] )
    => (last.res = None /\ controller.state = Stable)

\* C5: while external_display_detected is set, the state is Stable and every
\* process call returns None.
C5_ExternalDisplayPause ==
  controller.external_display_detected
    => /\ controller.state = Stable
       /\ IsProcess => (last.res = None /\ ~last.panicked)

\* a process call with a sample far below current_hz, made while an external
\* display is detected
C5_Witness ==
  /\ controller.external_display_detected
  /\ IsProcess
  /\ last.fps < last.hz * 10 - 100
  /\ last.branch = "external"

\* C6: on a Stable Balanced controller (Oled, range 40-90), with current_hz = H
\* in 45..90 and fps = H - k, k >= 6: the first process call returns None and
\* arms Dropping; the same call 1001 ms later returns Some(target) with
\* target <= H - 5 and target a multiple of 5.
C6_DropAfterSustainedLow ==
  /\ phase = "armed"
       => (last.res = None /\ controller.state = Dropping(last.now))
  /\ phase = "done"
       => /\ IsSome(last.res)
          /\ last.res[1] <= last.hz - 5
          /\ last.res[1] % 5 = 0

\* the second call at 49 Hz with 43.0 fps returns Some(40)
C6_Witness ==
  /\ phase = "done"
  /\ last.hz = 49
  /\ last.fps = 430
  /\ last.res = Some(40)

\* C7: on a Stable Balanced controller (Oled, range 40-90), with current_hz = H
\* a multiple of 5 below 90 and fps >= H + fps_tolerance: the first process
\* call returns None and arms Increasing; the same call 3001 ms later returns
\* Some(H + 5).
C7_RiseAfterSustainedHigh ==
  /\ phase = "armed"
       => (last.res = None /\ controller.state = Increasing(last.now))
  /\ phase = "done" => last.res = Some(last.hz + 5)

\* the second call at 85 Hz returns Some(90)
C7_Witness ==
  /\ phase = "done"
  /\ last.hz = 85
  /\ last.res = Some(90)

\* C8: whenever device_mode is Lcd, the effective sensitivity is Conservative
\* with drop wait 2000 ms and rise wait 5000 ms, the minimum change interval
\* is 2000 ms, and a process call returns Some only when the state had been
\* Dropping for 2000 ms or Increasing for 5000 ms; the user sensitivity is
\* changed by set_sensitivity alone.
C8_LcdInvariant ==
  controller.device_mode = "Lcd"
    => /\ controller.effective_sensitivity = "Conservative"
       /\ controller.drop_threshold = 2000
       /\ controller.increase_threshold = 5000
       /\ controller.min_change_interval = 2000
       /\ (IsProcess /\ IsSome(last.res))
            => last.now - last.pre_state.since
                 >= (IF last.pre_state.kind = "Dropping" THEN 2000 ELSE 5000)

C8_LcdForcesConservative ==
  /\ []C8_LcdInvariant
  /\ [][controller'.user_sensitivity # controller.user_sensitivity
          => last'.op = "set_sensitivity"]_vars

\* in Lcd mode with user sensitivity Aggressive, 45.0 fps at 60 Hz gives
\* Some(45) once Dropping has lasted 2000 ms
C8_Witness ==
  /\ controller.device_mode = "Lcd"
  /\ controller.user_sensitivity = "Aggressive"
  /\ controller.effective_sensitivity = "Conservative"
  /\ IsProcess
  /\ last.fps = 450
  /\ last.hz = 60
  /\ last.pre_state.kind = "Dropping"
  /\ last.now - last.pre_state.since = 2000
  /\ last.res = Some(45)

\* C9: a process call with fps <= 0 returns None and leaves the state,
\* last_change, the effective sensitivity and the variance window as they were.
C9_NoDataLeavesEngine ==
  [][ (decidesLeft' = decidesLeft - 1 /\ last'.fps <= 0)
        => /\ last'.res = None
           /\ controller'.state = controller.state
           /\ controller'.last_change = controller.last_change
           /\ controller'.effective_sensitivity = controller.effective_sensitivity
           /\ controller'.fps_window = controller.fps_window ]_vars

\* C10: the result of process is determined by the controller and the
\* arguments (fps, current_hz, now); in particular the resume-cooldown gate
\* closes exactly when `now` is below resume_cooldown_until.
C10_GateDependsOnNowOnly ==
  (IsProcess /\ ~controller.external_display_detected)
    => ( last.branch = "cooldown"
           <=> ( /\ IsSome(controller.resume_cooldown_until)
                 /\ last.now < controller.resume_cooldown_until[1] ) )

\* C11: when the effective range has emin = emax, no process call returns
\* Some, whatever fps and current_hz are.
C11_FlatRangeSilent ==
  (IsProcess /\ EMin = EMax) => last.res = None

\* C12: each of set_sensitivity, apply_mode_constraints and set_user_range,
\* called in any state, sets the state to Stable and leaves last_change as it
\* was.
C12_MutatorsResetState ==
  [][ (configsLeft' = configsLeft - 1
         /\ last'.op \in {"set_sensitivity", "apply_mode_constraints", "set_user_range"})
        => /\ controller'.state = Stable
           /\ controller'.last_change = controller.last_change ]_vars

\* C13: reset_state, called in any state, sets the state to Stable, sets
\* last_change to None, empties the variance window and sets
\* resume_cooldown_until to the time of the call plus resume_cooldown_duration;
\* user sensitivity, device mode, user range, fps_tolerance and the
\* external-display flag stay as they were.
C13_ResetStateEffect ==
  [][ (configsLeft' = configsLeft - 1 /\ last'.op = "reset_state")
        => /\ controller'.state = Stable
           /\ controller'.last_change = None
           /\ controller'.fps_window.samples = <<>>
           /\ controller'.resume_cooldown_until
                = Some(clock + controller.resume_cooldown_duration)
           /\ controller'.user_sensitivity = controller.user_sensitivity
           /\ controller'.device_mode = controller.device_mode
           /\ controller'.user_min_hz = controller.user_min_hz
           /\ controller'.user_max_hz = controller.user_max_hz
           /\ controller'.fps_tolerance = controller.fps_tolerance
           /\ controller'.external_display_detected
                = controller.external_display_detected ]_vars

\* reset_state was called while a drop was pending, at a clock reading other
\* than zero
C13_Witness ==
  /\ last.op = "reset_state"
  /\ last.pre_state.kind = "Dropping"
  /\ clock > 0
  /\ controller.state = Stable
  /\ controller.last_change = None
  /\ controller.fps_window.samples = <<>>
  /\ controller.resume_cooldown_until = Some(clock + controller.resume_cooldown_duration)

\* time of the latest call of scenario S3, in ms since the first call
S3Time == last.now - clock

\* C14 as stated: in scenario S3 in Oled mode the call at t = 1000 returns
\* Some(45) and the call at t = 2100 returns Some(30); in Lcd mode the call at
\* t = 2100 returns None.
C14_ScenarioS3AsStated ==
  (IsProcess /\ phase # "start")
    => /\ (controller.device_mode = "Oled" /\ S3Time = 1000) => last.res = Some(45)
       /\ (controller.device_mode = "Oled" /\ S3Time = 2100) => last.res = Some(30)
       /\ (controller.device_mode = "Lcd" /\ S3Time = 2100) => last.res = None

\* C14, amended: in scenario S3 in Oled mode the call at t = 1000 returns
\* Some(45), the call at t = 1100 arms Dropping, and the call at t = 2100
\* returns Some(40), the drop target 30 clamped to the effective minimum 40;
\* in Lcd mode the call at t = 2100 returns None.
C14_ScenarioS3 ==
  (IsProcess /\ phase # "start")
    => /\ (controller.device_mode = "Oled" /\ S3Time = 1000) => last.res = Some(45)
       /\ (controller.device_mode = "Oled" /\ S3Time = 1100)
            => (last.res = None /\ controller.state = Dropping(last.now))
       /\ (controller.device_mode = "Oled" /\ S3Time = 2100)
            => (last.res = Some(40) /\ last.prevSome = Some(last.now - 1100))
       /\ (controller.device_mode = "Lcd" /\ S3Time = 2100) => last.res = None

\* the Oled run has made its call at t = 2100, 1100 ms after the change at
\* t = 1000
C14_Witness ==
  /\ IsProcess
  /\ controller.device_mode = "Oled"
  /\ S3Time = 2100
  /\ last.hz = 45
  /\ last.fps = 300
  /\ last.res = Some(40)
  /\ last.prevSome = Some(last.now - 1100)

\* time of the latest call of scenario S4, in ms since reset_state
S4Time == last.now - S4ResetAt

\* C15 as stated: in scenario S4 the calls up to t = 4999 return None with
\* state Stable, the call at t = 5001 returns None and arms Dropping, and the
\* call at t = 6002 returns Some(30).
C15_ScenarioS4AsStated ==
  IsProcess
    => /\ S4Time <= 4999 => (last.res = None /\ controller.state = Stable)
       /\ S4Time = 5001 => (last.res = None /\ controller.state = Dropping(last.now))
       /\ S4Time = 6002 => last.res = Some(30)

\* C15, amended: in scenario S4 the calls up to t = 4999 return None with
\* state Stable, the call at t = 5001 returns None and arms Dropping, and the
\* call at t = 6002 returns Some(40), the drop target 30 clamped to the
\* effective minimum 40.
C15_ScenarioS4 ==
  IsProcess
    => /\ S4Time <= 4999 => (last.res = None /\ controller.state = Stable)
       /\ S4Time = 5001 => (last.res = None /\ controller.state = Dropping(last.now))
       /\ S4Time = 6002 => last.res = Some(40)

\* the run has made its seven calls and the last one returned Some(40)
C15_Witness ==
  /\ phase = "done"
  /\ decidesLeft = 0
  /\ S4Time = 6002
  /\ last.pre_state = Dropping(last.now - 1001)
  /\ last.res = Some(40)

\* n * n * (sum of the squared deviations from the mean) of the samples s:
\* with S the sum of s, the sum over x in s of (n*x - S)^2
RECURSIVE ScaledSquaredDeviations(_, _, _)
ScaledSquaredDeviations(s, n, S) ==
  IF s = <<>> THEN 0
  ELSE (n * Head(s) - S) * (n * Head(s) - S) + ScaledSquaredDeviations(Tail(s), n, S)

\* sigma * sigma * n * n * (n - 1), sigma the sample standard deviation of the
\* ten samples s
SigmaSqScaled(s) == ScaledSquaredDeviations(s, Len(s), SumSeq(s))

\* lim * lim * n * n * (n - 1) for a window of ten samples
LimitSqScaled(lim) == lim * lim * 10 * 10 * 9

\* C16: on a process call with adaptive sensitivity enabled, the mode not Lcd
\* and the window (which holds the sample of the call) full, with sigma the
\* sample standard deviation of the window: sigma > 5.0 makes the effective
\* sensitivity Conservative, sigma < 2.0 makes it the user's, and a sigma in
\* between leaves it; with adaptive sensitivity disabled, in Lcd mode or with
\* fewer than ten samples the call leaves the effective sensitivity.
C16_VarianceAdaptation ==
  [][ decidesLeft' = decidesLeft - 1
        => LET w == controller'.fps_window.samples
               sigma2 == SigmaSqScaled(w)
           IN IF /\ controller.adaptive_sensitivity_enabled
                 /\ controller.device_mode # "Lcd"
                 /\ Len(w) = 10
              THEN /\ sigma2 > LimitSqScaled(50)
                        => controller'.effective_sensitivity = "Conservative"
                   /\ sigma2 < LimitSqScaled(20)
                        => controller'.effective_sensitivity = controller.user_sensitivity
                   /\ (sigma2 <= LimitSqScaled(50) /\ sigma2 >= LimitSqScaled(20))
                        => controller'.effective_sensitivity
                             = controller.effective_sensitivity
              ELSE controller'.effective_sensitivity
                     = controller.effective_sensitivity ]_vars

\* an Aggressive controller is held at Conservative by a window of five
\* samples of 55.0 and five of 65.0 (sigma 5.27)
C16_Witness ==
  /\ IsProcess
  /\ controller.adaptive_sensitivity_enabled
  /\ controller.device_mode = "Oled"
  /\ controller.user_sensitivity = "Aggressive"
  /\ Len(controller.fps_window.samples) = 10
  /\ SumSeq(controller.fps_window.samples) = 6000
  /\ controller.effective_sensitivity = "Conservative"
  /\ controller.drop_threshold = 2000

\* the tasks that mutate the controller, with the calls they make
Mutators == [ipc |-> {"set_sensitivity", "apply_mode_constraints"},
             wake |-> {"reset_state"},
             monitor |-> {"set_external_display_detected"},
             loop |-> {"process_with_time"}]

\* C17: a process call of the control loop runs inside one acquisition of
\* the controller's write guard: from the step that grants the guard to the
\* loop until the call, no step changes the controller, and the call
\* releases the guard.  Every step that changes the controller is one call
\* of one task (set_sensitivity or apply_mode_constraints of the IPC
\* handler, reset_state of the wake handler, set_external_display_detected
\* of the monitor, process of the loop) that is the only holder of the
\* guard, and there is never more than one holder.
C17_DecideUnderOneLock ==
  [][ /\ Cardinality(daemon.writers) <= 1
      /\ (daemon.loop.pc = "locked" /\ daemon'.loop.pc = "locked")
            => controller' = controller
      /\ (daemon.loop.pc = "locked" /\ daemon'.loop.pc # "locked")
            => /\ last'.op = "process_with_time"
               /\ daemon.writers = {"loop"}
               /\ daemon'.writers = {}
      /\ controller' # controller
            => \E t \in Tasks :
                 /\ daemon.writers = {t}
                 /\ daemon'.writers = {}
                 /\ daemon[t].pc = "locked"
                 /\ daemon'[t].pc # "locked"
                 /\ last'.op \in Mutators[t]
    ]_vars

\* a mutation requested over IPC is pending while the control loop, holding
\* the guard, has made a process call
C17_Witness ==
  /\ daemon.ipc.pc = "want_lock"
  /\ last.op = "process_with_time"
  /\ last.branch # "none"
  /\ daemon.writers = {}

\* C18: once the wake handler has called reset_state, the control loop
\* starts no refresh-rate command until the resume cooldown has expired:
\* every invocation of the helper was made at an instant at which the
\* controller was not in its resume cooldown, also when the tick got
\* Some(target) from process before the reset.
C18_ResumeSilence ==
  \A i \in DOMAIN daemon.helper_calls : ~daemon.helper_calls[i].in_cooldown

\* what a tick of the control loop that is skipped leaves as it was
SkippedTick ==
  /\ daemon'.loop.pc = "sleep"
  /\ controller' = controller
  /\ last' = last
  /\ daemon'.helper_calls = daemon.helper_calls
  /\ daemon'.dm = daemon.dm
  /\ daemon'.current_hz = daemon.current_hz
  /\ daemon'.metrics = daemon.metrics
  /\ daemon'.transitions = daemon.transitions

\* C19: a tick of the control loop that finds the running flag false, or
\* that reads a smoothed FPS <= 0, ends at once: no process call, no helper
\* invocation, and the controller, the published Hz, the metrics and the
\* transition log stay as they were.  Start leaves the running flag true
\* and Stop leaves it false.
C19_SkippedTick ==
  [][ /\ (daemon.loop.pc = "sleep" /\ decidesLeft' # decidesLeft /\ ~daemon.running)
            => SkippedTick
      /\ (daemon.loop.pc = "read" /\ daemon'.loop.pc # "read" /\ daemon.current_fps <= 0)
            => SkippedTick
      /\ (configsLeft' # configsLeft /\ last'.op = "Start") => daemon'.running
      /\ (configsLeft' # configsLeft /\ last'.op = "Stop") => ~daemon'.running
    ]_vars

\* a daemon started with enabled = false has let a tick pass, and nothing
\* has started it
C19_Witness ==
  /\ ~daemon.config.enabled
  /\ ~daemon.running
  /\ last.op = "new"
  /\ decidesLeft < DaemonTicks

\* the target of the tick clamped to the range the DisplayManager holds
ClampedTarget ==
  LET target == daemon.loop.new_hz[1]
  IN IF target < daemon.dm.min_hz THEN daemon.dm.min_hz
     ELSE IF target > daemon.dm.max_hz THEN daemon.dm.max_hz
     ELSE target

\* C20: set_refresh_rate(target), with c the target clamped to the
\* configured range: if c is the cached Hz it returns Ok(false) (NoChange),
\* runs no helper and changes nothing; otherwise it runs the helper once,
\* with c, and then either returns Ok(true) (Changed) with the cached Hz
\* equal to c, or, when the helper fails, returns the error (Failed) with
\* the cached Hz as it was.
C20_SetRefreshRate ==
  [][ /\ (daemon.loop.pc = "set_rate" /\ daemon'.loop.pc # "set_rate")
            => /\ daemon'.dm = daemon.dm
               /\ IF ClampedTarget = daemon.dm.current_hz
                  THEN /\ daemon'.loop.result = "NoChange"
                       /\ daemon'.loop.pc = "sleep"
                       /\ daemon'.helper_calls = daemon.helper_calls
                       /\ daemon'.current_hz = daemon.current_hz
                       /\ controller' = controller
                  ELSE /\ daemon'.loop.pc = "helper"
                       /\ Len(daemon'.helper_calls) = Len(daemon.helper_calls) + 1
                       /\ SubSeq(daemon'.helper_calls, 1, Len(daemon.helper_calls))
                            = daemon.helper_calls
                       /\ daemon'.helper_calls[Len(daemon'.helper_calls)].hz
                            = ClampedTarget
      /\ (daemon.loop.pc = "helper" /\ daemon'.loop.pc # "helper")
            => /\ daemon'.helper_calls = daemon.helper_calls
               /\ \/ /\ daemon'.loop.result = "Changed"
                     /\ daemon'.dm.current_hz
                          = daemon.helper_calls[Len(daemon.helper_calls)].hz
                     /\ daemon'.dm.current_hz = ClampedTarget
                  \/ /\ daemon'.loop.result = "Failed"
                     /\ daemon'.dm = daemon.dm
                     /\ daemon'.loop.pc = "sleep"
    ]_vars

\* the helper was run with a clamped target and failed: the cached Hz is
\* still the one before the call
C20_Witness ==
  /\ daemon.loop.result = "Failed"
  /\ Len(daemon.helper_calls) = 1
  /\ daemon.helper_calls[1].hz # daemon.loop.new_hz[1]
  /\ daemon.dm.current_hz # daemon.helper_calls[1].hz

\* C21: in a tick whose set_refresh_rate returned Ok(true), first the
\* helper has completed and the DisplayManager's cached Hz is the new rate,
\* then the published current_hz is stored from it, then the metrics count
\* the switch and the transition is recorded.  The published current_hz,
\* the metrics and the transition log change in no other step, so a target
\* whose set_refresh_rate returned Ok(false) or an error leaves no trace in
\* them.
C21_ChangedOrder ==
  [][ /\ daemon'.current_hz # daemon.current_hz
            => /\ daemon.loop.pc = "publish"
               /\ daemon.loop.result = "Changed"
               /\ daemon.dm.current_hz = daemon.helper_calls[Len(daemon.helper_calls)].hz
               /\ daemon'.current_hz = daemon.dm.current_hz
               /\ daemon'.metrics = daemon.metrics
               /\ daemon'.transitions = daemon.transitions
      /\ daemon'.metrics # daemon.metrics
            => /\ daemon.loop.pc = "metrics"
               /\ daemon.loop.result = "Changed"
               /\ daemon.current_hz = daemon.dm.current_hz
               /\ daemon'.metrics.total_switches = daemon.metrics.total_switches + 1
               /\ daemon'.transitions = daemon.transitions
      /\ daemon'.transitions # daemon.transitions
            => /\ daemon.loop.pc = "transition"
               /\ daemon.loop.result = "Changed"
               /\ daemon.current_hz = daemon.dm.current_hz
               /\ daemon.metrics.total_switches = Len(daemon.transitions) + 1
               /\ daemon'.transitions
                    = Append(daemon.transitions,
                             <<daemon.loop.old_hz, daemon.dm.current_hz, daemon.loop.fps>>)
      /\ (daemon.loop.pc = "helper" /\ daemon'.loop.pc # "helper"
            /\ daemon'.loop.result # "Changed")
            => daemon'.loop.pc = "sleep"
      /\ (daemon.loop.pc = "set_rate" /\ daemon'.loop.pc # "set_rate"
            /\ daemon'.loop.result = "NoChange")
            => daemon'.loop.pc = "sleep"
    ]_vars

\* a tick has changed the rate and recorded it everywhere
C21_Witness ==
  /\ daemon.loop.pc = "sleep"
  /\ daemon.loop.result = "Changed"
  /\ Len(daemon.transitions) = 1
  /\ daemon.metrics.total_switches = 1
  /\ daemon.current_hz = daemon.dm.current_hz
  /\ daemon.transitions[1][2] = daemon.current_hz

\* a SetConfig request <<min_hz, max_hz, sensitivity>> that is not valid
InvalidRequest(q) ==
  \/ q[1] > q[2]
  \/ q[1] < 40
  \/ q[2] > 90
  \/ to_lowercase(q[3]) \notin {"conservative", "balanced", "aggressive"}

\* the step in which a SetConfig request is received
IsSetConfig == configsLeft' # configsLeft /\ last'.op = "SetConfig"

\* C22: a SetConfig request with min_hz > max_hz, min_hz < 40, max_hz > 90
\* or an unknown sensitivity string is answered with success = false and
\* leaves the configuration in memory, the configuration file and the
\* controller (sensitivity and state) as they were; no call of the
\* controller is pending afterwards.
C22_InvalidSetConfigRejected ==
  [][ (IsSetConfig /\ InvalidRequest(daemon'.ipc.req))
        => /\ ~daemon'.ipc.success
           /\ daemon'.config = daemon.config
           /\ daemon'.file = daemon.file
           /\ controller' = controller
           /\ daemon'.ipc.pc = "idle"
    ]_vars

\* a request with min_hz > max_hz was refused while the controller was in
\* state Dropping
C22_Witness ==
  /\ last.op = "SetConfig"
  /\ daemon.ipc.req = <<60, 45, "Balanced">>
  /\ ~daemon.ipc.success
  /\ controller.state.kind = "Dropping"

\* a configuration file that exists and is not valid JSON for a Config, or
\* names an unknown sensitivity, or violates 40 <= min_hz <= max_hz <= 90
InvalidFile(file) ==
  /\ file # None
  /\ \/ ~file[1].json
     \/ file[1].sensitivity \notin {"conservative", "balanced", "aggressive"}
     \/ ~(40 <= file[1].min_hz /\ file[1].min_hz <= file[1].max_hz
            /\ file[1].max_hz <= 90)

\* C23: when the configuration file does not exist the daemon starts with
\* the default configuration (40, 90, Balanced, enabled); when the file
\* exists and is invalid, load_or_default returns an error, start-up
\* aborts, and no default is substituted.
C23_LoadOrDefault ==
  phase # "load" =>
    /\ daemon.file = None
          => /\ phase = "started"
             /\ daemon.config = [min_hz |-> 40, max_hz |-> 90, sensitivity |-> "Balanced",
                                 enabled |-> TRUE]
             /\ daemon.running
    /\ InvalidFile(daemon.file) => phase = "aborted"
    /\ (daemon.file # None /\ ~InvalidFile(daemon.file))
          => /\ phase = "started"
             /\ to_string_pretty(daemon.config) = daemon.file[1]

\* start-up has aborted on a file that is valid JSON with a range that is
\* in order but names a sensitivity that is not known
C23_Witness ==
  /\ phase = "aborted"
  /\ daemon.file # None
  /\ daemon.file[1].json
  /\ daemon.file[1].sensitivity = "Balanced"
  /\ daemon.file[1].min_hz = 40
  /\ daemon.file[1].max_hz = 90

\* C24: if the IPC socket cannot be bound at start-up, start-up fails: the
\* daemon does not go on running without an IPC server.  (An error on a
\* connection ends that connection only.)
C24_BindFailureFatal ==
  daemon.server.bind_failures > 0 => phase = "aborted"

\* C25: on one connection the k-th response line written is the response to
\* the k-th non-empty request line read; a request is handled and its
\* response written before the next line of the connection is read, so at
\* most one request is without its response, and none when the connection
\* is about to read.
C25_ResponsesInRequestOrder ==
  \A c \in Conns :
    LET conn == daemon.conns[c]
    IN /\ Len(conn.out) <= Len(conn.reads)
       /\ Len(conn.reads) <= Len(conn.out) + 1
       /\ \A k \in 1..Len(conn.out) : conn.out[k].to = conn.reads[k]
       /\ \A j, k \in 1..Len(conn.reads) : j < k => conn.reads[j] < conn.reads[k]
       /\ conn.pc \in {"read", "closed"} => Len(conn.out) = Len(conn.reads)
       /\ conn.pc \in {"handle", "write"} => Len(conn.reads) = Len(conn.out) + 1

\* one connection has answered its second line, the first being blank,
\* while the other connection has answered one request and has the response
\* to its next one in hand
C25_Witness ==
  /\ Len(daemon.conns[1].out) = 1
  /\ daemon.conns[1].out[1].to = 2
  /\ daemon.conns[2].pc = "write"
  /\ Len(daemon.conns[2].out) = 1

\* C26: after the shutdown signal has been sent, the control loop (unless a
\* helper invocation it waits for never returns), the FPS polling task and
\* the IPC server task each eventually leave their loops, and run_daemon
\* eventually returns, whether or not the tasks have exited.
C26_ShutdownTerminates ==
  /\ []<>(daemon.loop.pc # "helper")
        => (daemon.shutdown ~> daemon.loop.pc = "exited")
  /\ daemon.shutdown ~> daemon.fps_task.pc = "exited"
  /\ daemon.shutdown ~> daemon.server.pc = "exited"
  /\ daemon.shutdown ~> daemon.main.pc = "returned"

\* run_daemon has returned while the control loop still waits for the
\* helper, the other two tasks having left their loops
C26_Witness ==
  /\ daemon.shutdown
  /\ daemon.main.pc = "returned"
  /\ daemon.loop.pc = "helper"
  /\ daemon.fps_task.pc = "exited"
  /\ daemon.server.pc = "exited"

\* the last c values of a sequence, in order
LastValues(s, c) == SubSeq(s, Len(s) - c + 1, Len(s))

\* a window of capacity c holds what the claim says after the pushes s
RollingHolds(samples, s, c) ==
  /\ Len(samples) = Min(Len(s), c)
  /\ Len(s) >= c => samples = LastValues(s, c)

\* C27: after N pushes into a rolling window of capacity C (the 120-entry
\* FPS ring buffer, the 10-entry variance window) the window's length is
\* min(N, C), after every push, and once N >= C it holds exactly the last C
\* pushed values in push order.
C27_RollingWindow ==
  /\ RollingHolds(daemon.ring_buffer.samples, daemon.ring_pushed, RING_BUFFER_CAPACITY)
  /\ RollingHolds(daemon.fps_window.samples, daemon.window_pushed, ADAPTIVE_WINDOW_SIZE)

\* both windows have been pushed into beyond their capacity, and each has
\* dropped a value that differs from the oldest one it still holds
C27_Witness ==
  /\ Len(daemon.ring_pushed) > RING_BUFFER_CAPACITY
  /\ Len(daemon.window_pushed) > ADAPTIVE_WINDOW_SIZE
  /\ daemon.ring_pushed[Len(daemon.ring_pushed) - RING_BUFFER_CAPACITY].fps
       # daemon.ring_buffer.samples[1].fps
  /\ daemon.window_pushed[Len(daemon.window_pushed) - ADAPTIVE_WINDOW_SIZE]
       # daemon.fps_window.samples[1]

\* the calls of the given kind in daemon.ops, as indices
OpsOf(kinds) == {i \in 1 .. Len(daemon.ops) : daemon.ops[i].op \in kinds}

Latest(S) == CHOOSE i \in S : \A j \in S : j <= i

\* the current app id by the calls made: the argument of the latest
\* set_current_game, none before the first
CurrentByCalls ==
  LET S == OpsOf({"set_current_game"})
  IN IF S = {} THEN None ELSE daemon.ops[Latest(S)].app_id

\* the profile of an app id by the calls made: the one of the latest
\* set_profile for it, unless none or a later remove_profile for it
ProfileByCalls(id) ==
  LET S == {i \in OpsOf({"set_profile", "remove_profile"}) :
              IF daemon.ops[i].op = "set_profile"
              THEN daemon.ops[i].profile.app_id = id
              ELSE daemon.ops[i].app_id = id}
  IN IF S = {} \/ daemon.ops[Latest(S)].op = "remove_profile"
     THEN None
     ELSE Some(daemon.ops[Latest(S)].profile)

\* the global default by the calls made
GlobalByCalls ==
  LET S == OpsOf({"set_global_default"})
  IN IF S = {} THEN <<40, 90, "balanced", FALSE>> ELSE daemon.ops[Latest(S)].settings

\* a sensitivity string as the preset it names, Balanced when it names none
PresetNamed(s) ==
  IF s \in {"conservative", "Conservative"} THEN "Conservative"
  ELSE IF s \in {"aggressive", "Aggressive"} THEN "Aggressive"
  ELSE "Balanced"

\* C28: after any sequence of set_profile, remove_profile, set_current_game
\* and set_global_default, get_current_settings returns the profile's
\* (min_hz, max_hz, sensitivity, adaptive) exactly when a current app id
\* is set and a profile exists for it, and the global default otherwise.
C28_CurrentSettings ==
  LET p == IF CurrentByCalls = None THEN None ELSE ProfileByCalls(CurrentByCalls[1])
      g == GlobalByCalls
  IN get_current_settings(daemon.pm) =
       IF p # None
       THEN <<p[1].min_hz, p[1].max_hz, PresetNamed(p[1].sensitivity),
              p[1].adaptive_sensitivity>>
       ELSE <<g[1], g[2], PresetNamed(g[3]), g[4]>>

\* a profile was set for the current game and removed again, and the
\* settings returned are not that profile's
C28_Witness ==
  /\ Len(daemon.ops) = ProfileOps
  /\ daemon.pm.current_app_id # None
  /\ daemon.ops[Len(daemon.ops)].op = "remove_profile"
  /\ daemon.ops[Len(daemon.ops)].app_id = daemon.pm.current_app_id[1]
  /\ \E i \in OpsOf({"set_profile"}) :
       /\ daemon.ops[i].profile.app_id = daemon.pm.current_app_id[1]
       /\ <<daemon.ops[i].profile.min_hz, daemon.ops[i].profile.max_hz>>
            # <<get_current_settings(daemon.pm)[1], get_current_settings(daemon.pm)[2]>>

\* C29: for every requested x and every range [a, b] with
\* 40 <= a <= b <= 90, clamp_hz(x) lies in [a, b], is a when x < a, b when
\* x > b and x otherwise, and clamping the result again returns it unchanged.
C29_ClampHz ==
  LET x == daemon.requested_hz
      a == daemon.a
      b == daemon.b
  IN /\ daemon.clamped # None =>
          /\ a <= daemon.clamped[1] /\ daemon.clamped[1] <= b
          /\ x < a => daemon.clamped[1] = a
          /\ x > b => daemon.clamped[1] = b
          /\ (a <= x /\ x <= b) => daemon.clamped[1] = x
     /\ daemon.again # None => daemon.again = daemon.clamped

\* a rate above a range narrower than the allowed one has been clamped
\* twice
C29_Witness ==
  /\ phase = "done"
  /\ daemon.requested_hz > daemon.b
  /\ daemon.b < MAX_ALLOWED_HZ
  /\ daemon.a < daemon.b
  /\ daemon.again = Some(daemon.b)

\* this step is a decide call (process or process_with_time) that returned
Decided == decidesLeft' # decidesLeft /\ ~last'.panicked

\* the call of this step returned a rate below (above) the current_hz it
\* was given
Decrease == IsSome(last'.res) /\ last'.res[1] < last'.hz

Increase == IsSome(last'.res) /\ last'.res[1] > last'.hz

\* the call of this step met a pause gate or the sticky band
Gated ==
  \/ controller.external_display_detected
  \/ is_in_resume_cooldown(controller, clock)
  \/ within_tolerance(controller, last'.fps, last'.hz)

\* the time waited at this call since the pending state was entered
Waited == last'.now - last'.pre_state.since

\* a decide made in state Stable returns None
C30_StableNone ==
  Decided /\ last'.pre_state.kind = "Stable" => last'.res = None

\* a rate is returned only from a pending state whose wait, taken from the
\* effective sensitivity, is over (the boundary included)
C30_Waited ==
  Decided /\ IsSome(last'.res) =>
    \/ last'.pre_state.kind = "Dropping" /\ Waited >= controller'.drop_threshold
    \/ last'.pre_state.kind = "Increasing" /\ Waited >= controller'.increase_threshold

\* a decrease comes from Dropping, an increase from Increasing
C30_Direction ==
  /\ Decided /\ Decrease => last'.pre_state.kind = "Dropping"
  /\ Decided /\ Increase => last'.pre_state.kind = "Increasing"

\* a decide that does not continue the pending condition leaves the
\* pending state
C30_Leaves ==
  /\ ( /\ Decided
       /\ last'.pre_state.kind = "Dropping"
       /\ Gated \/ ~(last'.fps < last'.hz * 10 - 10) )
     => controller'.state = Stable
  /\ ( /\ Decided
       /\ last'.pre_state.kind = "Increasing"
       /\ Gated \/ ~(last'.fps >= last'.hz * 10) )
     => controller'.state.kind # "Increasing"

\* a pending state is entered with since = now of the call that arms it,
\* and a call that stays in it keeps its since
C30_Arming ==
  Decided /\ controller'.state.kind # "Stable" =>
    controller'.state.since =
      IF last'.pre_state.kind = controller'.state.kind
      THEN last'.pre_state.since ELSE last'.now

C30_All ==
  /\ C30_StableNone
  /\ C30_Waited
  /\ C30_Direction
  /\ C30_Leaves
  /\ C30_Arming

\* C30: sustained-condition rule.  A decide call made in state Stable
\* never returns Some; a decrease is returned only by a decide made in
\* state Dropping{since} with now - since >= the effective drop_wait
\* (boundary inclusive), an increase only in state Increasing{since} with
\* now - since >= the effective rise_wait; a decide whose fps is not below
\* (resp. not at_or_above), is inside the sticky band, or hits a pause gate
\* leaves the pending state, so that the wait restarts from the next
\* arming call.
C30_SustainedCondition == [][C30_All]_vars

\* a pause gate applies to the call of this step
PauseGate ==
  \/ controller.external_display_detected
  \/ is_in_resume_cooldown(controller, clock)

\* C31: when a pause gate applies (external display detected, or resume
\* cooldown active) the only effect of decide is state := Stable: the
\* variance window, the effective sensitivity with its drop and rise
\* waits, and last_change are as before the call.
C31_PauseGateFrame ==
  [][Decided /\ PauseGate => controller' = [controller EXCEPT !.state = Stable]]_vars

\* the call of this step was made in a pending state whose condition still
\* holds and whose wait and minimum change interval are over
ReadyDropping ==
  /\ last'.pre_state.kind = "Dropping" /\ ~Gated
  /\ last'.fps < last'.hz * 10 - 10
  /\ Waited >= controller'.drop_threshold
  /\ can_change(controller, last'.now)

ReadyIncreasing ==
  /\ last'.pre_state.kind = "Increasing" /\ ~Gated
  /\ last'.fps >= last'.hz * 10
  /\ Waited >= controller'.increase_threshold
  /\ can_change(controller, last'.now)

C32_Frame ==
  Decided =>
    /\ IsSome(last'.res) =>
         /\ controller'.last_change = Some(last'.now)
         /\ controller'.last_change # controller.last_change
         /\ controller'.last_set_hz = last'.res
    /\ last'.res = None =>
         /\ controller'.last_change = controller.last_change
         /\ controller'.last_set_hz = controller.last_set_hz
         /\ (ReadyDropping \/ ReadyIncreasing) => controller'.state = Stable

\* C32: last_change and last_set_hz change in a decide call if and only
\* if the call returns Some(target), and then last_change = now and
\* last_set_hz = target; a decide that returns None leaves both as they
\* were, and a ready Dropping call suppressed by the 5 Hz deadband or a
\* ready Increasing call whose next step is not above current_hz sets the
\* state to Stable.
C32_LastChangeFrame == [][C32_Frame]_vars

\* a ready Dropping call was suppressed by the deadband after an earlier
\* call had returned a rate, and last_change is still that call's time
C32_Witness ==
  /\ last.branch = "drop_deadband"
  /\ IsSome(lastSomeAt)
  /\ controller.last_change = lastSomeAt
  /\ lastSomeAt[1] < last.now
  /\ controller.state = Stable

\* C33: no perpetual oscillation.  For every constant fps, every allowed
\* fps_tolerance in [2.0, 5.0] and every user range whose bounds are
\* multiples of 5, with decide called every 100 ms and each returned
\* target applied, only finitely many changes are emitted: from some tick
\* on every decide returns None and current_hz stays fixed.
\* (current_hz changes only in a tick whose decide returns Some)
C33_NoPerpetualOscillation == <>[](last.res = None)

\* the user range is one a validated configuration can hold
ValidUserRange ==
  /\ MIN_ALLOWED_HZ <= controller.user_min_hz
  /\ controller.user_min_hz <= controller.user_max_hz
  /\ controller.user_max_hz <= MAX_ALLOWED_HZ

\* C34: in every reachable engine configuration, any device mode combined
\* with any user range satisfying 40 <= min <= max <= 90, the effective
\* range satisfies emin <= emax, and decide never aborts in the Dropping
\* branch.
C34_EffectiveRangeOrdered ==
  ValidUserRange => EMin <= EMax /\ ~last.panicked

\* the step that ends a successful SetConfig request: the configuration
\* was updated and the controller call made under the write lock returns
SetConfigDone ==
  /\ daemon.ipc.pc = "locked" /\ daemon.ipc.op = "set_sensitivity"
  /\ daemon'.ipc.pc = "idle"

\* the step in which the actuator clamps the target of the tick, the
\* device mode being Oled or Custom
ActuatorClamps ==
  /\ daemon.loop.pc = "set_rate" /\ daemon'.loop.pc # "set_rate"
  /\ controller.device_mode \in {"Oled", "Custom"}

C35_Step ==
  /\ SetConfigDone =>
       /\ controller'.user_min_hz = daemon.ipc.req[1]
       /\ controller'.user_max_hz = daemon.ipc.req[2]
  /\ ActuatorClamps =>
       /\ daemon.dm.min_hz <= daemon.loop.new_hz[1]
       /\ daemon.loop.new_hz[1] <= daemon.dm.max_hz

\* C35: after a successful SetConfig{min_hz, max_hz, sensitivity} the
\* engine's user range equals (min_hz, max_hz), so that in Oled or Custom
\* mode every target returned by decide lies within the configured range
\* and the actuator never has to clamp an engine target.
C35_SetConfigSetsUserRange == [][C35_Step]_vars

\* C36: every Some(target) returned from the Dropping state satisfies
\* target <= current_hz - 5, and every Some(target) returned from the
\* Increasing state satisfies current_hz < target <= current_hz + 5, for
\* any interleaving of decide calls with set_user_range and
\* apply_mode_constraints calls.
C36_Direction ==
  [][ (Decided /\ IsSome(last'.res)) =>
        /\ last'.pre_state.kind = "Dropping" => last'.res[1] <= last'.hz - 5
        /\ last'.pre_state.kind = "Increasing" =>
             /\ last'.hz < last'.res[1]
             /\ last'.res[1] <= last'.hz + 5
    ]_vars

\* C37: if ConfigManager::update returns an error (validation failure, or
\* failure to write the configuration file) the configuration in memory
\* is the same as before the call; the file and the controller's
\* sensitivity are as before too, so that the three do not diverge after
\* a failed SetConfig.
C37_FailedUpdateKeepsConfig ==
  [][ (IsSetConfig /\ ~daemon'.ipc.success /\ parse_sensitivity(daemon'.ipc.req[3]) # None)
        => /\ daemon'.config = daemon.config
           /\ daemon'.file = daemon.file
           /\ controller' = controller
           /\ daemon'.ipc.pc = "idle"
    ]_vars

\* C38: under any interleaving of set_range with clamp_hz callers, no
\* reader observes a range with min_hz > max_hz: every range a clamp_hz
\* call has loaded satisfies 40 <= min_hz <= max_hz <= 90, also when
\* set_range is given swapped or out-of-bounds arguments, and the call
\* does not panic.
C38_RangeObservedOrdered ==
  (daemon.reader.pc = "idle" /\ daemon.reader.calls > 0) =>
     /\ MIN_ALLOWED_HZ <= daemon.reader.min
     /\ daemon.reader.min <= daemon.reader.max
     /\ daemon.reader.max <= MAX_ALLOWED_HZ
     /\ ~daemon.reader.panicked

\* C39: every MetricsResponse returned by get_metrics has
\* total_switches = drop_count + increase_count, however get_metrics interleaves
\* with the control loop's record_switch calls
C39_SnapshotConsistent ==
  IsSome(daemon.response) =>
    daemon.response[1].total_switches
      = daemon.response[1].drop_count + daemon.response[1].increase_count

\* C40: in every reachable state of the controller the effective sensitivity
\* is the user sensitivity or Conservative; it is the user sensitivity when
\* the device mode is not Lcd and adaptive sensitivity is disabled; and the
\* cached drop and increase thresholds are those of the effective sensitivity
C40_EffectiveSensitivity ==
  /\ controller.effective_sensitivity \in {controller.user_sensitivity, "Conservative"}
  /\ (controller.device_mode # "Lcd" /\ ~controller.adaptive_sensitivity_enabled)
       => controller.effective_sensitivity = controller.user_sensitivity
  /\ controller.drop_threshold = drop_threshold(controller.effective_sensitivity)
  /\ controller.increase_threshold = increase_threshold(controller.effective_sensitivity)

\* a process call under adaptive sensitivity left an Aggressive user on an
\* OLED panel with the Conservative thresholds
C40_Witness ==
  /\ last.op = "process_with_time"
  /\ controller.device_mode = "Oled"
  /\ controller.adaptive_sensitivity_enabled
  /\ controller.user_sensitivity = "Aggressive"
  /\ controller.effective_sensitivity = "Conservative"
  /\ controller.drop_threshold = 2000
  /\ controller.increase_threshold = 5000

====
